---- MODULE Spec2Model ----
(***************************************************************************)
(* Warehouse task allocation and execution core: Inventory Ledger          *)
(* (simulation/inventory.py), Fleet Registry (simulation/agv.py), the      *)
(* warehouse action processor (simulation/warehouse.py), the inventory,    *)
(* AGV-planner and restock agents (agents/*.py) and the Coordinator        *)
(* (agents/coordinator.py).                                                *)
(*                                                                         *)
(* Every handler is a pure operator from a world record                    *)
(*   w = [items, item_order, agvs, stats, inventory_file, agv_file, trace, *)
(*        orders, order_file]                                              *)
(* and an action dictionary to an outcome [w, result, raised]; the actions *)
(* of the specifications apply these operators to the state variables.     *)
(* w.trace is the list of Ledger / Fleet Registry manager calls the        *)
(* handler made, in call order, each with its arguments and return value.  *)
(* A world may carry two more fields: write_fails, when the snapshot files *)
(* cannot be written, and io_error, once such a write raised.              *)
(*                                                                         *)
(* Python values: a dict is a function whose DOMAIN is its key set, with   *)
(* a separate key sequence where iteration order matters; an Optional[int] *)
(* is << >> (None) or <<n>>; battery levels and capacities are floats in   *)
(* the source that only ever hold integral values, and are integers here.  *)
(***************************************************************************)
EXTENDS Integers, Sequences, FiniteSets, TLC

VARIABLES
  items,          \* InventoryManager.items: product_id -> item
  item_order,     \* key order of InventoryManager.items
  agvs,           \* AGVManager.agvs: agv_id -> agent
  stats,          \* Warehouse.stats
  inventory_file, \* last snapshot written by save_inventory
  agv_file,       \* last snapshot written by save_agvs
  action_history, \* CoordinatorAgent.action_history (the Action Journal)
  request,        \* the call just served: operation and arguments
  result,         \* what that call returned
  trace,          \* the manager calls it made, in order
  ops,            \* calls served so far
  background,     \* background tasks added by ask_agent, not yet run
  orders,         \* OrderManager.orders: order_id -> order
  order_file,     \* last snapshot written by save_orders
  running         \* the coroutines on the event loop, each with its position

vars == <<items, item_order, agvs, stats, inventory_file, agv_file,
          action_history, request, result, trace, ops, background,
          orders, order_file, running>>

---------------------------------------------------------------------------
(* Bounds of the model *)

\* operations (API calls) per behaviour
MaxOps == 2
\* largest quantity argument drawn for an action
MaxQty == 2
\* max_capacity of the Ledger items drawn by Init
ItemCap == 3
\* max_capacity of the agents drawn by Init
AgvCap == 2
\* largest min_threshold drawn by the priority specification
MaxThreshold == 10
\* longest plan handed to execute_plan
MaxPlanLen == 3

---------------------------------------------------------------------------
(* Identifiers and Python helpers *)

ProductIds == {"P001", "P002"}
UnknownProduct == "P999"
AgvIds == {"AGV001", "AGV002"}
UnknownAgv == "AGV999"
AgvOrder == <<"AGV001", "AGV002">>

None == << >>
Some(n) == <<n>>

Has(d, k) == k \in DOMAIN d
Get(d, k, default) == IF k \in DOMAIN d THEN d[k] ELSE default
\* truthiness of an optional string parameter fetched with dict.get
Truthy(d, k) == k \in DOMAIN d /\ d[k] /= ""

Max(x, y) == IF x >= y THEN x ELSE y
Min(x, y) == IF x <= y THEN x ELSE y

RECURSIVE SumOver(_, _)
SumOver(f, S) ==
  IF S = {} THEN 0
  ELSE LET k == CHOOSE x \in S : TRUE IN f[k] + SumOver(f, S \ {k})

\* sum(self.current_load.values())
LoadTotal(load) == SumOver(load, DOMAIN load)

DictDel(d, k) == [x \in (DOMAIN d) \ {k} |-> d[x]]
DictSet(d, k, v) == [x \in (DOMAIN d) \cup {k} |-> IF x = k THEN v ELSE d[x]]

\* one manager call as recorded in the trace
Call(op, agv_id, product_id, location, quantity, ok, unloaded) ==
  [op |-> op, agv_id |-> agv_id, product_id |-> product_id,
   location |-> location, quantity |-> quantity, ok |-> ok,
   unloaded |-> unloaded]

Log(w, e) == [w EXCEPT !.trace = Append(@, e)]

---------------------------------------------------------------------------
(* Inventory Ledger: simulation/inventory.py *)

\* needs_restock with the comparison turned around
InventoryItem_needs_restock_Flipped(item) ==
  item.quantity >= item.min_threshold

InventoryItem_needs_restock(item) == item.quantity <= item.min_threshold

\* can_add that tests the stored quantity and forgets the amount
InventoryItem_can_add_NoAmount(item, amount) ==
  item.quantity <= item.max_capacity

InventoryItem_can_add(item, amount) ==
  item.quantity + amount <= item.max_capacity

InventoryItem_add(item, amount) ==
  IF ~InventoryItem_can_add(item, amount)
  THEN [item |-> item, ret |-> FALSE]
  ELSE [item |-> [item EXCEPT !.quantity = @ + amount], ret |-> TRUE]

InventoryItem_remove(item, amount) ==
  IF amount > item.quantity
  THEN [item |-> item, ret |-> FALSE]
  ELSE [item |-> [item EXCEPT !.quantity = @ - amount], ret |-> TRUE]

\* A world with the field write_fails stands on a disk that refuses to open
\* the snapshot files for writing; open() then raises inside save_inventory
\* and save_agvs, which the field io_error records until a handler catches it.
Interrupted(w) == Has(w, "io_error")

\* a manager method: not entered once an exception is on its way up, and with
\* no return value (`none` stands for it) when its own snapshot write raises
Completed(w, none, r) ==
  IF Interrupted(w) THEN [w |-> w, ret |-> none]
  ELSE IF Interrupted(r.w) THEN [w |-> r.w, ret |-> none]
  ELSE r

\* save_inventory: the snapshot file holds the whole ledger
save_inventory(w) ==
  IF Has(w, "write_fails") THEN [io_error |-> TRUE] @@ w
  ELSE [w EXCEPT !.inventory_file = w.items]

add_item(w, product_id, item) ==
  save_inventory([w EXCEPT
    !.items = DictSet(w.items, product_id, item),
    !.item_order = IF product_id \in DOMAIN w.items THEN @
                   ELSE Append(@, product_id)])

update_quantity(w, product_id, new_quantity) ==
  Completed(w, FALSE,
  LET fail == [w |-> Log(w, Call("update_quantity", "", product_id, "",
                                 Some(new_quantity), FALSE, 0)),
               ret |-> FALSE]
  IN IF product_id \notin DOMAIN w.items THEN fail
     ELSE IF new_quantity < 0 THEN fail
     ELSE IF new_quantity > w.items[product_id].max_capacity THEN fail
     ELSE [w |-> Log(save_inventory(
                       [w EXCEPT !.items[product_id].quantity = new_quantity]),
                     Call("update_quantity", "", product_id, "",
                          Some(new_quantity), TRUE, 0)),
           ret |-> TRUE])

add_quantity(w, product_id, amount) ==
  Completed(w, FALSE,
  IF product_id \notin DOMAIN w.items
  THEN [w |-> Log(w, Call("add_quantity", "", product_id, "",
                          Some(amount), FALSE, 0)),
        ret |-> FALSE]
  ELSE LET r == InventoryItem_add(w.items[product_id], amount)
           w1 == [w EXCEPT !.items[product_id] = r.item]
           w2 == IF r.ret THEN save_inventory(w1) ELSE w1
       IN [w |-> Log(w2, Call("add_quantity", "", product_id, "",
                              Some(amount), r.ret, 0)),
           ret |-> r.ret])

remove_quantity(w, product_id, amount) ==
  Completed(w, FALSE,
  IF product_id \notin DOMAIN w.items
  THEN [w |-> Log(w, Call("remove_quantity", "", product_id, "",
                          Some(amount), FALSE, 0)),
        ret |-> FALSE]
  ELSE LET r == InventoryItem_remove(w.items[product_id], amount)
           w1 == [w EXCEPT !.items[product_id] = r.item]
           w2 == IF r.ret THEN save_inventory(w1) ELSE w1
       IN [w |-> Log(w2, Call("remove_quantity", "", product_id, "",
                              Some(amount), r.ret, 0)),
           ret |-> r.ret])

\* items in dict (insertion) order that need restock
get_items_below_threshold(w) ==
  SelectSeq(w.item_order,
            LAMBDA p : InventoryItem_needs_restock(w.items[p]))

---------------------------------------------------------------------------
(* Fleet Registry: simulation/agv.py *)

\* availability that does not look at what the agent carries
AGV_is_available_IgnoresLoad(agv) ==
  /\ agv.status = "idle"
  /\ agv.battery_level > 20

AGV_is_available(agv) ==
  /\ agv.status = "idle"
  /\ agv.battery_level > 20
  /\ DOMAIN agv.current_load = {}

\* move_to that never resets the transient status
AGV_move_to_StaysMoving(agv, new_location) ==
  [agv EXCEPT !.location = new_location,
              !.battery_level = Max(0, @ - 5),
              !.status = "moving"]

\* a move that costs no battery
AGV_move_to_NoCost(agv, new_location) ==
  [agv EXCEPT !.location = new_location, !.status = "idle"]

AGV_move_to(agv, new_location) ==
  [agv EXCEPT !.location = new_location,
              !.battery_level = Max(0, @ - 5),
              !.status = "idle"]

\* load_item that tests the carried weight and forgets the quantity
AGV_load_item_NoQuantity(agv, product_id, quantity) ==
  IF agv.status /= "idle" THEN [agv |-> agv, ret |-> FALSE]
  ELSE IF LoadTotal(agv.current_load) > agv.max_capacity
  THEN [agv |-> agv, ret |-> FALSE]
  ELSE [agv |-> [agv EXCEPT
                   !.current_load =
                      IF product_id \in DOMAIN @
                      THEN [@ EXCEPT ![product_id] = @ + quantity]
                      ELSE DictSet(@, product_id, quantity),
                   !.battery_level = Max(0, @ - 2),
                   !.status = "idle"],
        ret |-> TRUE]

AGV_load_item(agv, product_id, quantity) ==
  IF agv.status /= "idle" THEN [agv |-> agv, ret |-> FALSE]
  ELSE IF LoadTotal(agv.current_load) + quantity > agv.max_capacity
  THEN [agv |-> agv, ret |-> FALSE]
  ELSE [agv |-> [agv EXCEPT
                   !.current_load =
                      IF product_id \in DOMAIN @
                      THEN [@ EXCEPT ![product_id] = @ + quantity]
                      ELSE DictSet(@, product_id, quantity),
                   !.battery_level = Max(0, @ - 2),
                   !.status = "idle"],
        ret |-> TRUE]

\* unload_item that hands out whatever quantity is asked for
AGV_unload_item_Uncapped(agv, product_id, quantity) ==
  IF agv.status /= "idle" THEN [agv |-> agv, ret |-> 0]
  ELSE IF product_id \notin DOMAIN agv.current_load
  THEN [agv |-> agv, ret |-> 0]
  ELSE LET carried == agv.current_load[product_id]
           whole == quantity = None
           unloaded_quantity == IF whole THEN carried ELSE quantity[1]
           left == carried - unloaded_quantity
           load1 == IF whole \/ left = 0
                    THEN DictDel(agv.current_load, product_id)
                    ELSE [agv.current_load EXCEPT ![product_id] = left]
       IN [agv |-> [agv EXCEPT !.current_load = load1,
                               !.battery_level = Max(0, @ - 2),
                               !.status = "idle"],
           ret |-> unloaded_quantity]

\* quantity is None (<< >>) or <<n>>
AGV_unload_item(agv, product_id, quantity) ==
  IF agv.status /= "idle" THEN [agv |-> agv, ret |-> 0]
  ELSE IF product_id \notin DOMAIN agv.current_load
  THEN [agv |-> agv, ret |-> 0]
  ELSE LET carried == agv.current_load[product_id]
           whole == quantity = None \/ quantity[1] >= carried
           unloaded_quantity == IF whole THEN carried ELSE quantity[1]
           left == carried - unloaded_quantity
           load1 == IF whole \/ left = 0
                    THEN DictDel(agv.current_load, product_id)
                    ELSE [agv.current_load EXCEPT ![product_id] = left]
       IN [agv |-> [agv EXCEPT !.current_load = load1,
                               !.battery_level = Max(0, @ - 2),
                               !.status = "idle"],
           ret |-> unloaded_quantity]

\* charge that never resets the transient status
AGV_charge_StaysCharging(agv, amount) ==
  [agv EXCEPT !.battery_level = Min(100, @ + amount), !.status = "charging"]

AGV_charge(agv, amount) ==
  [agv EXCEPT !.battery_level = Min(100, @ + amount), !.status = "idle"]

save_agvs(w) ==
  IF Has(w, "write_fails") THEN [io_error |-> TRUE] @@ w
  ELSE [w EXCEPT !.agv_file = w.agvs]

get_available_agvs(w) ==
  SelectSeq(AgvOrder, LAMBDA id : AGV_is_available(w.agvs[id]))

update_agv_status(w, agv_id, status) ==
  Completed(w, FALSE,
  IF agv_id \notin DOMAIN w.agvs
  THEN [w |-> Log(w, Call("update_agv_status", agv_id, "", status, None,
                          FALSE, 0)),
        ret |-> FALSE]
  ELSE [w |-> Log(save_agvs([w EXCEPT !.agvs[agv_id].status = status]),
                  Call("update_agv_status", agv_id, "", status, None,
                       TRUE, 0)),
        ret |-> TRUE])

\* a registry that moves idle agents only
move_agv_IdleOnly(w, agv_id, location) ==
  Completed(w, FALSE,
  IF agv_id \notin DOMAIN w.agvs \/ w.agvs[agv_id].status /= "idle"
  THEN [w |-> Log(w, Call("move_agv", agv_id, "", location, None, FALSE, 0)),
        ret |-> FALSE]
  ELSE [w |-> Log(save_agvs([w EXCEPT
                    !.agvs[agv_id] = AGV_move_to(@, location)]),
                  Call("move_agv", agv_id, "", location, None, TRUE, 0)),
        ret |-> TRUE])

move_agv(w, agv_id, location) ==
  Completed(w, FALSE,
  IF agv_id \notin DOMAIN w.agvs
  THEN [w |-> Log(w, Call("move_agv", agv_id, "", location, None, FALSE, 0)),
        ret |-> FALSE]
  ELSE [w |-> Log(save_agvs([w EXCEPT
                    !.agvs[agv_id] = AGV_move_to(@, location)]),
                  Call("move_agv", agv_id, "", location, None, TRUE, 0)),
        ret |-> TRUE])

load_agv(w, agv_id, product_id, quantity) ==
  Completed(w, FALSE,
  IF agv_id \notin DOMAIN w.agvs
  THEN [w |-> Log(w, Call("load_agv", agv_id, product_id, "",
                          Some(quantity), FALSE, 0)),
        ret |-> FALSE]
  ELSE LET r == AGV_load_item(w.agvs[agv_id], product_id, quantity)
           w1 == [w EXCEPT !.agvs[agv_id] = r.agv]
           w2 == IF r.ret THEN save_agvs(w1) ELSE w1
       IN [w |-> Log(w2, Call("load_agv", agv_id, product_id, "",
                              Some(quantity), r.ret, 0)),
           ret |-> r.ret])

unload_agv(w, agv_id, product_id, quantity) ==
  Completed(w, 0,
  IF agv_id \notin DOMAIN w.agvs
  THEN [w |-> Log(w, Call("unload_agv", agv_id, product_id, "",
                          quantity, FALSE, 0)),
        ret |-> 0]
  ELSE LET r == AGV_unload_item(w.agvs[agv_id], product_id, quantity)
           w1 == [w EXCEPT !.agvs[agv_id] = r.agv]
           w2 == IF r.ret > 0 THEN save_agvs(w1) ELSE w1
       IN [w |-> Log(w2, Call("unload_agv", agv_id, product_id, "",
                              quantity, r.ret > 0, r.ret)),
           ret |-> r.ret])

charge_agv(w, agv_id, amount) ==
  Completed(w, FALSE,
  IF agv_id \notin DOMAIN w.agvs
  THEN [w |-> Log(w, Call("charge_agv", agv_id, "", "", Some(amount),
                          FALSE, 0)),
        ret |-> FALSE]
  ELSE [w |-> Log(save_agvs([w EXCEPT
                    !.agvs[agv_id] = AGV_charge(@, amount)]),
                  Call("charge_agv", agv_id, "", "", Some(amount), TRUE, 0)),
        ret |-> TRUE])

---------------------------------------------------------------------------
(* Order Ledger: simulation/order.py *)

OrderStatuses ==
  {"pending", "processing", "picking", "packing", "shipping", "completed",
   "cancelled"}

\* an order as create_order builds it
NewOrder(customer_id, order_items, status, priority) ==
  [customer_id |-> customer_id, items |-> order_items, status |-> status,
   priority |-> priority]

\* Order.add_item: the first line of that product grows, else a line is added
Order_add_item(order, product_id, quantity) ==
  LET at == {i \in 1..Len(order.items) :
               order.items[i].product_id = product_id}
  IN IF at /= {}
  THEN LET i == CHOOSE k \in at : \A j \in at : k <= j
       IN [order EXCEPT !.items[i].quantity = @ + quantity]
  ELSE [order EXCEPT !.items = Append(@, [product_id |-> product_id,
                                          quantity |-> quantity])]

\* Order.remove_item: the first line of that product is popped
Order_remove_item(order, product_id) ==
  LET at == {i \in 1..Len(order.items) :
               order.items[i].product_id = product_id}
  IN IF at = {} THEN [order |-> order, ret |-> FALSE]
     ELSE LET i == CHOOSE k \in at : \A j \in at : k <= j
          IN [order |-> [order EXCEPT
                           !.items = SubSeq(@, 1, i - 1)
                                     \o SubSeq(@, i + 1, Len(@))],
              ret |-> TRUE]

Order_update_status(order, status) == [order EXCEPT !.status = status]

save_orders(w) ==
  IF Has(w, "write_fails") THEN [io_error |-> TRUE] @@ w
  ELSE [w EXCEPT !.order_file = w.orders]

\* order_id is the uuid4 the new order draws
create_order(w, order_id, customer_id, order_items, priority) ==
  Completed(w, "",
  [w |-> save_orders([w EXCEPT !.orders =
                        DictSet(@, order_id,
                                NewOrder(customer_id, order_items, "pending",
                                         priority))]),
   ret |-> order_id])

\* an Order Ledger in which completed and cancelled orders are final
update_order_status_Final(w, order_id, status) ==
  Completed(w, FALSE,
  IF order_id \notin DOMAIN w.orders THEN [w |-> w, ret |-> FALSE]
  ELSE IF w.orders[order_id].status \in {"completed", "cancelled"}
  THEN [w |-> w, ret |-> FALSE]
  ELSE [w |-> save_orders([w EXCEPT !.orders[order_id] =
                             Order_update_status(@, status)]),
        ret |-> TRUE])

update_order_status(w, order_id, status) ==
  Completed(w, FALSE,
  IF order_id \notin DOMAIN w.orders THEN [w |-> w, ret |-> FALSE]
  ELSE [w |-> save_orders([w EXCEPT !.orders[order_id] =
                             Order_update_status(@, status)]),
        ret |-> TRUE])

add_item_to_order(w, order_id, product_id, quantity) ==
  Completed(w, FALSE,
  IF order_id \notin DOMAIN w.orders THEN [w |-> w, ret |-> FALSE]
  ELSE [w |-> save_orders([w EXCEPT !.orders[order_id] =
                             Order_add_item(@, product_id, quantity)]),
        ret |-> TRUE])

remove_item_from_order(w, order_id, product_id) ==
  Completed(w, FALSE,
  IF order_id \notin DOMAIN w.orders THEN [w |-> w, ret |-> FALSE]
  ELSE LET r == Order_remove_item(w.orders[order_id], product_id)
           w1 == [w EXCEPT !.orders[order_id] = r.order]
       IN [w |-> IF r.ret THEN save_orders(w1) ELSE w1, ret |-> r.ret])

cancel_order(w, order_id) == update_order_status(w, order_id, "cancelled")

complete_order(w, order_id) == update_order_status(w, order_id, "completed")

---------------------------------------------------------------------------
(* Handler outcomes *)

Out(w, r) == [w |-> w, result |-> r, raised |-> FALSE]
Raise(w, exc) == [w |-> w, result |-> [exception |-> exc], raised |-> TRUE]

Fail(msg) == [success |-> FALSE, message |-> msg]

\* try: ... return r / except Exception: return handled -- the exception on
\* its way up stops here
Caught(w, r, handled) ==
  IF Interrupted(w)
  THEN Out([k \in DOMAIN w \ {"io_error"} |-> w[k]], handled)
  ELSE Out(w, r)

\* a handler's outcome as its caller sees it: an exception nobody caught
\* leaves the handler in place of the result
Propagated(o) ==
  IF ~o.raised /\ Interrupted(o.w) THEN Raise(o.w, "OSError") ELSE o

---------------------------------------------------------------------------
(* Restock agent: agents/restock_agent.py *)

\* int(x) for the quotient num / den, den > 0: truncation toward zero.  The
\* source computes ((t - q) / t) * 10 in floating point; for the thresholds
\* of the model the rounded product truncates to the same integer as the
\* exact quotient (t - q) * 10 / t.
IntTrunc(num, den) ==
  IF num >= 0 THEN num \div den ELSE -((-num) \div den)

\* the priority without its lower clamp
_calculate_restock_priority_NoFloor(item) ==
  IF item.quantity = 0 THEN 10
  ELSE Min(9, IntTrunc((item.min_threshold - item.quantity) * 10,
                       item.min_threshold))

_calculate_restock_priority(item) ==
  IF item.quantity = 0 THEN 10
  ELSE Min(9, Max(1, IntTrunc((item.min_threshold - item.quantity) * 10,
                              item.min_threshold)))

RestockNeed(w, p) ==
  [product_id |-> p,
   current_quantity |-> w.items[p].quantity,
   min_threshold |-> w.items[p].min_threshold,
   restock_amount |-> w.items[p].max_capacity - w.items[p].quantity,
   location |-> w.items[p].location,
   priority |-> _calculate_restock_priority(w.items[p])]

\* list.sort(key=priority, reverse=True): stable, descending
RECURSIVE InsertDesc(_, _)
\* the insertion that puts an entry before the entries of equal priority
InsertDesc_Unstable(sorted, e) ==
  IF sorted = << >> THEN <<e>>
  ELSE IF Head(sorted).priority > e.priority
       THEN <<Head(sorted)>> \o InsertDesc(Tail(sorted), e)
       ELSE <<e>> \o sorted

InsertDesc(sorted, e) ==
  IF sorted = << >> THEN <<e>>
  ELSE IF Head(sorted).priority >= e.priority
       THEN <<Head(sorted)>> \o InsertDesc(Tail(sorted), e)
       ELSE <<e>> \o sorted

RECURSIVE SortByPriorityDesc(_)
SortByPriorityDesc(seq) ==
  IF seq = << >> THEN << >>
  ELSE InsertDesc(SortByPriorityDesc(SubSeq(seq, 1, Len(seq) - 1)),
                  seq[Len(seq)])

get_restock_needs(w) ==
  LET below == get_items_below_threshold(w)
  IN SortByPriorityDesc([i \in 1..Len(below) |-> RestockNeed(w, below[i])])

\* a planner that asks for a full shelf whatever the item holds
plan_restock_operation_FullShelf(w, product_id) ==
  IF product_id \notin DOMAIN w.items
  THEN Fail("Product not found")
  ELSE LET item == w.items[product_id]
           available_agvs == get_available_agvs(w)
       IN IF ~InventoryItem_needs_restock(item)
          THEN [success |-> TRUE,
                message |-> "Product does not need restocking",
                restock_needed |-> FALSE]
          ELSE IF available_agvs = << >>
          THEN Fail("No available AGVs for restocking")
          ELSE LET selected_agv == available_agvs[1]
                   restock_amount == item.max_capacity
               IN [success |-> TRUE,
                   restock_needed |-> TRUE,
                   product_id |-> product_id,
                   current_quantity |-> item.quantity,
                   restock_amount |-> restock_amount,
                   location |-> item.location,
                   agv_id |-> selected_agv,
                   agv_location |-> w.agvs[selected_agv].location,
                   steps |-> <<
                     [step |-> "move_agv_to_receiving",
                      agv_id |-> selected_agv, destination |-> "receiving"],
                     [step |-> "load_inventory", agv_id |-> selected_agv,
                      product_id |-> product_id,
                      quantity |-> restock_amount],
                     [step |-> "move_agv_to_storage",
                      agv_id |-> selected_agv,
                      destination |-> item.location],
                     [step |-> "unload_inventory", agv_id |-> selected_agv,
                      product_id |-> product_id,
                      quantity |-> restock_amount] >>]

plan_restock_operation(w, product_id) ==
  IF product_id \notin DOMAIN w.items
  THEN Fail("Product not found")
  ELSE LET item == w.items[product_id]
           available_agvs == get_available_agvs(w)
       IN IF ~InventoryItem_needs_restock(item)
          THEN [success |-> TRUE,
                message |-> "Product does not need restocking",
                restock_needed |-> FALSE]
          ELSE IF available_agvs = << >>
          THEN Fail("No available AGVs for restocking")
          ELSE LET selected_agv == available_agvs[1]
                   restock_amount == item.max_capacity - item.quantity
               IN [success |-> TRUE,
                   restock_needed |-> TRUE,
                   product_id |-> product_id,
                   current_quantity |-> item.quantity,
                   restock_amount |-> restock_amount,
                   location |-> item.location,
                   agv_id |-> selected_agv,
                   agv_location |-> w.agvs[selected_agv].location,
                   steps |-> <<
                     [step |-> "move_agv_to_receiving",
                      agv_id |-> selected_agv, destination |-> "receiving"],
                     [step |-> "load_inventory", agv_id |-> selected_agv,
                      product_id |-> product_id,
                      quantity |-> restock_amount],
                     [step |-> "move_agv_to_storage",
                      agv_id |-> selected_agv,
                      destination |-> item.location],
                     [step |-> "unload_inventory", agv_id |-> selected_agv,
                      product_id |-> product_id,
                      quantity |-> restock_amount] >>]

\* a restock that looks the agent up before the item
execute_restock_AgentFirst(w, product_id, agv_id, restock_amount) ==
  IF agv_id \notin DOMAIN w.agvs THEN Out(w, Fail("AGV not found"))
  ELSE IF product_id \notin DOMAIN w.items
  THEN Out(w, Fail("Product not found"))
  ELSE IF w.agvs[agv_id].status /= "idle"
  THEN Out(w, Fail("AGV is not idle"))
  ELSE
    LET item == w.items[product_id]
        s1 == move_agv(w, agv_id, "receiving")
        s2 == load_agv(s1.w, agv_id, product_id, restock_amount)
        s3 == move_agv(s2.w, agv_id, item.location)
        s4 == unload_agv(s3.w, agv_id, product_id, Some(restock_amount))
        s5 == add_quantity(s4.w, product_id, s4.ret)
    IN IF ~s1.ret THEN Out(s1.w, Fail("Failed to move AGV to receiving"))
       ELSE IF ~s2.ret THEN Out(s2.w, Fail("Failed to load onto AGV"))
       ELSE IF ~s3.ret THEN Out(s3.w, Fail("Failed to move AGV to storage"))
       ELSE IF s4.ret > 0
       THEN IF s5.ret
            THEN Out(s5.w, [success |-> TRUE,
                            product_id |-> product_id,
                            restocked_quantity |-> s4.ret,
                            new_quantity |-> s5.w.items[product_id].quantity,
                            agv_id |-> agv_id])
            ELSE Out(s5.w, Fail("Failed to add to inventory"))
       ELSE Out(s4.w, Fail("Failed to unload from AGV"))

\* the execute_restock branch after its parameter check
execute_restock(w, product_id, agv_id, restock_amount) ==
  IF product_id \notin DOMAIN w.items THEN Out(w, Fail("Product not found"))
  ELSE IF agv_id \notin DOMAIN w.agvs THEN Out(w, Fail("AGV not found"))
  ELSE IF w.agvs[agv_id].status /= "idle"
  THEN Out(w, Fail("AGV is not idle"))
  ELSE
    LET item == w.items[product_id]
        s1 == move_agv(w, agv_id, "receiving")
        s2 == load_agv(s1.w, agv_id, product_id, restock_amount)
        s3 == move_agv(s2.w, agv_id, item.location)
        s4 == unload_agv(s3.w, agv_id, product_id, Some(restock_amount))
        s5 == add_quantity(s4.w, product_id, s4.ret)
    IN IF ~s1.ret THEN Out(s1.w, Fail("Failed to move AGV to receiving"))
       ELSE IF ~s2.ret THEN Out(s2.w, Fail("Failed to load onto AGV"))
       ELSE IF ~s3.ret THEN Out(s3.w, Fail("Failed to move AGV to storage"))
       ELSE IF s4.ret > 0
       THEN IF s5.ret
            THEN Out(s5.w, [success |-> TRUE,
                            product_id |-> product_id,
                            restocked_quantity |-> s4.ret,
                            new_quantity |-> s5.w.items[product_id].quantity,
                            agv_id |-> agv_id])
            ELSE Out(s5.w, Fail("Failed to add to inventory"))
       ELSE Out(s4.w, Fail("Failed to unload from AGV"))

\* a restock agent whose plan_restock takes the selected agent out of service
RestockAgent_execute_action_Claiming(w, action) ==
  LET action_type == Get(action, "action", "")
  IN IF action_type = "get_restock_needs"
     THEN Out(w, [success |-> TRUE, restock_needs |-> get_restock_needs(w)])
     ELSE IF action_type = "plan_restock"
     THEN IF Truthy(action, "product_id")
          THEN LET r == plan_restock_operation(w, action.product_id)
               IN Out(IF Has(r, "agv_id")
                      THEN [w EXCEPT !.agvs[r.agv_id].status = "maintenance"]
                      ELSE w, r)
          ELSE Out(w, Fail("No product_id provided"))
     ELSE IF action_type = "execute_restock"
     THEN IF \/ ~Truthy(action, "product_id")
             \/ ~Truthy(action, "agv_id")
             \/ ~Has(action, "restock_amount")
             \/ Get(action, "restock_amount", 0) = 0
          THEN Out(w, Fail("Missing parameters"))
          ELSE execute_restock(w, action.product_id, action.agv_id,
                               action.restock_amount)
     ELSE Out(w, Fail("Unknown action type"))

RestockAgent_execute_action(w, action) ==
  LET action_type == Get(action, "action", "")
  IN IF action_type = "get_restock_needs"
     THEN Out(w, [success |-> TRUE, restock_needs |-> get_restock_needs(w)])
     ELSE IF action_type = "plan_restock"
     THEN IF Truthy(action, "product_id")
          THEN Out(w, plan_restock_operation(w, action.product_id))
          ELSE Out(w, Fail("No product_id provided"))
     ELSE IF action_type = "execute_restock"
     THEN IF \/ ~Truthy(action, "product_id")
             \/ ~Truthy(action, "agv_id")
             \/ ~Has(action, "restock_amount")
             \/ Get(action, "restock_amount", 0) = 0
          THEN Out(w, Fail("Missing parameters"))
          ELSE execute_restock(w, action.product_id, action.agv_id,
                               action.restock_amount)
     ELSE Out(w, Fail("Unknown action type"))

---------------------------------------------------------------------------
(* AGV planner agent: agents/agv_planner.py *)

\* keys of Warehouse.locations
WarehouseLocations ==
  {"receiving", "shipping", "storage_a", "storage_b", "storage_c",
   "picking_station", "packing_station", "charging_station"}

AGV_to_dict(w, id) == [agv_id |-> id] @@ w.agvs[id]

planner_move_agv(w, action) ==
  IF ~(Truthy(action, "agv_id") /\ Truthy(action, "destination"))
  THEN Out(w, Fail("Missing agv_id or destination"))
  ELSE LET agv_id == action.agv_id
           destination == action.destination
       IN IF agv_id \notin DOMAIN w.agvs THEN Out(w, Fail("AGV not found"))
          ELSE IF w.agvs[agv_id].status /= "idle"
          THEN Out(w, Fail("AGV is not idle"))
          ELSE IF destination \notin WarehouseLocations
          THEN Out(w, Fail("Invalid destination"))
          ELSE LET route == <<w.agvs[agv_id].location, destination>>
                   m == move_agv(w, agv_id, destination)
               IN IF m.ret
                  THEN Out(m.w, [success |-> TRUE, agv_id |-> agv_id,
                                 from_location |-> route[1],
                                 to_location |-> destination,
                                 route |-> route])
                  ELSE Out(m.w, Fail("Failed to move AGV"))

planner_charge_agv(w, action) ==
  IF ~Truthy(action, "agv_id") THEN Out(w, Fail("Missing agv_id"))
  ELSE LET agv_id == action.agv_id
           amount == Get(action, "amount", 100)
       IN IF agv_id \notin DOMAIN w.agvs THEN Out(w, Fail("AGV not found"))
          ELSE LET w1 == IF w.agvs[agv_id].location /= "charging_station"
                         THEN move_agv(w, agv_id, "charging_station").w
                         ELSE w
                   c == charge_agv(w1, agv_id, amount)
               IN IF c.ret
                  THEN Out(c.w, [success |-> TRUE, agv_id |-> agv_id,
                                 new_battery_level |->
                                   c.w.agvs[agv_id].battery_level])
                  ELSE Out(c.w, Fail("Failed to charge AGV"))

planner_load_agv(w, action) ==
  LET quantity == Get(action, "quantity", 1)
  IN IF ~(Truthy(action, "agv_id") /\ Truthy(action, "product_id")
          /\ quantity > 0)
     THEN Out(w, Fail("Invalid parameters for load_agv action"))
     ELSE
       LET agv_id == action.agv_id
           product_id == action.product_id
       IN IF agv_id \notin DOMAIN w.agvs THEN Out(w, Fail("AGV not found"))
          ELSE IF product_id \notin DOMAIN w.items
          THEN Out(w, Fail("Product not found"))
          ELSE
            LET item == w.items[product_id]
                w1 == IF w.agvs[agv_id].location /= item.location
                      THEN move_agv(w, agv_id, item.location).w
                      ELSE w
                rm == remove_quantity(w1, product_id, quantity)
                ld == load_agv(rm.w, agv_id, product_id, quantity)
            IN IF item.quantity < quantity
               THEN Out(w1, Fail("Not enough inventory"))
               ELSE IF ~rm.ret
               THEN Out(rm.w, Fail("Failed to remove from inventory"))
               ELSE IF ld.ret
               THEN Out(ld.w, [success |-> TRUE, agv_id |-> agv_id,
                               product_id |-> product_id,
                               quantity |-> quantity,
                               location |-> ld.w.agvs[agv_id].location])
               ELSE \* revert inventory change if AGV loading fails
                    Out(add_quantity(ld.w, product_id, quantity).w,
                        Fail("Failed to load onto AGV"))

planner_unload_agv(w, action) ==
  LET quantity == IF Has(action, "quantity") THEN Some(action.quantity)
                  ELSE None
  IN IF ~(Truthy(action, "agv_id") /\ Truthy(action, "product_id"))
     THEN Out(w, Fail("Missing agv_id or product_id"))
     ELSE
       LET agv_id == action.agv_id
           product_id == action.product_id
       IN IF agv_id \notin DOMAIN w.agvs THEN Out(w, Fail("AGV not found"))
          ELSE IF product_id \notin DOMAIN w.agvs[agv_id].current_load
          THEN Out(w, Fail("AGV does not have product"))
          ELSE
            LET un == unload_agv(w, agv_id, product_id, quantity)
                ad == add_quantity(un.w, product_id, un.ret)
            IN IF un.ret > 0
               THEN IF product_id \in DOMAIN un.w.items
                    THEN IF ad.ret
                         THEN Out(ad.w, [success |-> TRUE,
                                agv_id |-> agv_id,
                                product_id |-> product_id,
                                quantity |-> un.ret,
                                location |-> ad.w.agvs[agv_id].location])
                         ELSE \* revert AGV change if inventory update fails
                              Out(load_agv(ad.w, agv_id, product_id,
                                           un.ret).w,
                                  Fail("Failed to add to inventory"))
                    ELSE \* add_item is handed a dict, not an InventoryItem:
                         \* item.product_id raises before anything is stored
                         Raise(un.w, "AttributeError")
               ELSE Out(un.w, Fail("Failed to unload from AGV"))

planner_get_available_agvs(w) ==
  LET ids == get_available_agvs(w)
  IN Out(w, [success |-> TRUE,
             available_agvs |->
               [i \in 1..Len(ids) |-> AGV_to_dict(w, ids[i])]])

AGVPlannerAgent_execute_action(w, action) ==
  LET action_type == Get(action, "action", "")
  IN IF action_type = "move_agv" THEN planner_move_agv(w, action)
     ELSE IF action_type = "charge_agv" THEN planner_charge_agv(w, action)
     ELSE IF action_type = "load_agv" THEN planner_load_agv(w, action)
     ELSE IF action_type = "unload_agv" THEN planner_unload_agv(w, action)
     ELSE IF action_type = "get_available_agvs"
     THEN planner_get_available_agvs(w)
     ELSE Out(w, Fail("Unknown action type"))

---------------------------------------------------------------------------
(* Warehouse action processor: simulation/warehouse.py *)

warehouse_move_agv(w, action) ==
  IF ~(Truthy(action, "agv_id") /\ Truthy(action, "location"))
  THEN Out(w, Fail("Unknown action type"))
  ELSE LET m == move_agv(w, action.agv_id, action.location)
       IN IF m.ret
          THEN Out([m.w EXCEPT !.stats.agv_movements = @ + 1],
                   [success |-> TRUE, message |-> "AGV moved"])
          ELSE Out(m.w, Fail("Failed to move AGV"))

pick_item(w, action) ==
  LET quantity == Get(action, "quantity", 1)
  IN IF ~(Truthy(action, "agv_id") /\ Truthy(action, "product_id"))
     THEN Out(w, Fail("Unknown action type"))
     ELSE
       LET agv_id == action.agv_id
           product_id == action.product_id
       IN IF agv_id \notin DOMAIN w.agvs THEN Out(w, Fail("AGV not found"))
          ELSE IF product_id \notin DOMAIN w.items
          THEN Out(w, Fail("Product not found"))
          ELSE IF w.agvs[agv_id].location /= w.items[product_id].location
          THEN Out(w, Fail("AGV is not at the same location as product"))
          ELSE
            LET rm == remove_quantity(w, product_id, quantity)
                ld == load_agv(rm.w, agv_id, product_id, quantity)
            IN IF rm.ret
               THEN IF ld.ret
                    THEN Out([ld.w EXCEPT !.stats.items_picked = @ + quantity],
                             [success |-> TRUE, message |-> "Picked"])
                    ELSE \* revert inventory change if AGV loading fails
                         Out(add_quantity(ld.w, product_id, quantity).w,
                             Fail("Failed to load onto AGV"))
               ELSE Out(rm.w, Fail("Not enough inventory to pick"))

restock_item(w, action) ==
  LET quantity == Get(action, "quantity", 1)
  IN IF ~(Truthy(action, "agv_id") /\ Truthy(action, "product_id"))
     THEN Out(w, Fail("Unknown action type"))
     ELSE
       LET agv_id == action.agv_id
           product_id == action.product_id
       IN IF agv_id \notin DOMAIN w.agvs THEN Out(w, Fail("AGV not found"))
          ELSE IF product_id \notin DOMAIN w.items
          THEN Out(w, Fail("Product not found"))
          ELSE IF w.agvs[agv_id].location /= w.items[product_id].location
          THEN Out(w, Fail("AGV is not at the same location as product"))
          ELSE
            LET un == unload_agv(w, agv_id, product_id, Some(quantity))
                ad == add_quantity(un.w, product_id, un.ret)
            IN IF un.ret > 0
               THEN IF ad.ret
                    THEN Out([ad.w EXCEPT
                                !.stats.items_restocked = @ + un.ret],
                             [success |-> TRUE, message |-> "Restocked"])
                    ELSE \* revert AGV change if inventory update fails
                         Out(load_agv(ad.w, agv_id, product_id, un.ret).w,
                             Fail("Failed to restock to inventory"))
               ELSE Out(un.w, Fail("Nothing available on AGV to restock"))

warehouse_charge_agv(w, action) ==
  IF ~Truthy(action, "agv_id") THEN Out(w, Fail("Unknown action type"))
  ELSE LET agv_id == action.agv_id
           amount == Get(action, "amount", 100)
       IN IF agv_id \notin DOMAIN w.agvs THEN Out(w, Fail("AGV not found"))
          ELSE IF w.agvs[agv_id].location /= "charging_station"
          THEN Out(w, Fail("AGV is not at a charging station"))
          ELSE LET c == charge_agv(w, agv_id, amount)
               IN IF c.ret
                  THEN Out(c.w, [success |-> TRUE, message |-> "Charged AGV"])
                  ELSE Out(c.w, Fail("Failed to charge AGV"))

process_order(w, action) ==
  IF ~(Truthy(action, "order_id") /\ Truthy(action, "status"))
  THEN Out(w, Fail("Unknown action type"))
  ELSE IF action.status \notin OrderStatuses
  THEN Out(w, Fail("Invalid order status"))
  ELSE LET u == update_order_status(w, action.order_id, action.status)
       IN IF u.ret
          THEN Out(IF action.status = "completed"
                   THEN [u.w EXCEPT !.stats.orders_processed = @ + 1]
                   ELSE u.w,
                   [success |-> TRUE, message |-> "Updated order status"])
          ELSE Out(u.w, Fail("Failed to update order status"))

\* the view that lists every order but the completed one
get_warehouse_state_KeepsCancelled(w) ==
  [inventory |->
     [p \in DOMAIN w.items |->
        [quantity |-> w.items[p].quantity,
         location |-> w.items[p].location,
         min_threshold |-> w.items[p].min_threshold,
         needs_restock |-> InventoryItem_needs_restock(w.items[p])]],
   agvs |->
     [a \in DOMAIN w.agvs |->
        [location |-> w.agvs[a].location, status |-> w.agvs[a].status,
         battery_level |-> w.agvs[a].battery_level,
         current_load |-> w.agvs[a].current_load,
         is_available |-> AGV_is_available(w.agvs[a])]],
   orders |->
     [o \in {x \in DOMAIN w.orders : w.orders[x].status /= "completed"} |->
        w.orders[o]],
   stats |-> w.stats]

get_warehouse_state(w) ==
  [inventory |->
     [p \in DOMAIN w.items |->
        [quantity |-> w.items[p].quantity,
         location |-> w.items[p].location,
         min_threshold |-> w.items[p].min_threshold,
         needs_restock |-> InventoryItem_needs_restock(w.items[p])]],
   agvs |->
     [a \in DOMAIN w.agvs |->
        [location |-> w.agvs[a].location, status |-> w.agvs[a].status,
         battery_level |-> w.agvs[a].battery_level,
         current_load |-> w.agvs[a].current_load,
         is_available |-> AGV_is_available(w.agvs[a])]],
   orders |->
     [o \in {x \in DOMAIN w.orders :
               /\ w.orders[x].status /= "completed"
               /\ w.orders[x].status /= "cancelled"} |->
        w.orders[o]],
   stats |-> w.stats]

\* a processor that reads the name from the 'action' field
Warehouse_process_action_ByAction(w, action) ==
  LET action_type == Get(action, "action", "")
  IN IF action_type = "move_agv" THEN warehouse_move_agv(w, action)
     ELSE IF action_type = "pick_item" THEN pick_item(w, action)
     ELSE IF action_type = "restock_item" THEN restock_item(w, action)
     ELSE IF action_type = "process_order" THEN process_order(w, action)
     ELSE IF action_type = "charge_agv" THEN warehouse_charge_agv(w, action)
     ELSE Out(w, Fail("Unknown action type"))

Warehouse_process_action(w, action) ==
  LET action_type == Get(action, "type", "")
  IN IF action_type = "move_agv" THEN warehouse_move_agv(w, action)
     ELSE IF action_type = "pick_item" THEN pick_item(w, action)
     ELSE IF action_type = "restock_item" THEN restock_item(w, action)
     ELSE IF action_type = "process_order" THEN process_order(w, action)
     ELSE IF action_type = "charge_agv" THEN warehouse_charge_agv(w, action)
     ELSE Out(w, Fail("Unknown action type"))

---------------------------------------------------------------------------
(* Inventory manager agent: agents/inventory_manager.py *)

InventoryManagerAgent_execute_action(w, action) ==
  LET action_type == Get(action, "action", "")
      quantity == Get(action, "quantity", 0)
  IN IF action_type = "check_inventory"
     THEN IF ~Truthy(action, "product_id")
          THEN Out(w, Fail("No product_id provided"))
          ELSE IF action.product_id \in DOMAIN w.items
          THEN Out(w, [success |-> TRUE,
                       product_id |-> action.product_id,
                       quantity |-> w.items[action.product_id].quantity,
                       location |-> w.items[action.product_id].location,
                       needs_restock |->
                         InventoryItem_needs_restock(
                           w.items[action.product_id])])
          ELSE Out(w, Fail("Product not found"))
     ELSE IF action_type = "update_inventory"
     THEN IF ~(Has(action, "product_id") /\ Has(action, "quantity"))
          THEN Out(w, Fail("Missing product_id or quantity"))
          ELSE LET u == update_quantity(w, action.product_id, action.quantity)
               IN IF u.ret
                  THEN Out(u.w, [success |-> TRUE,
                                 product_id |-> action.product_id,
                                 new_quantity |-> action.quantity])
                  ELSE Out(u.w, Fail("Failed to update inventory"))
     ELSE IF action_type = "add_inventory"
     THEN IF ~(Truthy(action, "product_id") /\ quantity > 0)
          THEN Out(w, Fail("Invalid product_id or quantity"))
          ELSE LET r == add_quantity(w, action.product_id, quantity)
               IN IF r.ret
                  THEN Out(r.w, [success |-> TRUE,
                                 product_id |-> action.product_id,
                                 added_quantity |-> quantity,
                                 new_quantity |->
                                   r.w.items[action.product_id].quantity])
                  ELSE Out(r.w, Fail("Failed to add to inventory"))
     ELSE IF action_type = "remove_inventory"
     THEN IF ~(Truthy(action, "product_id") /\ quantity > 0)
          THEN Out(w, Fail("Invalid product_id or quantity"))
          ELSE LET r == remove_quantity(w, action.product_id, quantity)
               IN IF r.ret
                  THEN Out(r.w, [success |-> TRUE,
                                 product_id |-> action.product_id,
                                 removed_quantity |-> quantity,
                                 new_quantity |->
                                   r.w.items[action.product_id].quantity])
                  ELSE Out(r.w, Fail("Failed to remove from inventory"))
     ELSE IF action_type = "add_new_product"
     THEN LET product_data == Get(action, "product_data", << >>)
          IN IF /\ DOMAIN product_data /= {}
                /\ Has(product_data, "product_id")
                /\ Has(product_data, "name")
             THEN LET new_item ==
                        [quantity |-> Get(product_data, "quantity", 0),
                         location |->
                           Get(product_data, "location", "storage_a"),
                         min_threshold |->
                           Get(product_data, "min_threshold", 5),
                         max_capacity |->
                           Get(product_data, "max_capacity", 100)]
                  IN Caught(add_item(w, product_data.product_id, new_item),
                            [success |-> TRUE,
                             product |-> [product_id |->
                                            product_data.product_id]
                                         @@ new_item],
                            Fail("Error adding new product"))
             ELSE Out(w, Fail("Invalid product data"))
     ELSE Out(w, Fail("Unknown action type"))

---------------------------------------------------------------------------
(* Coordinator: agents/coordinator.py *)

\* the routing of execute_action, between _log_action and _log_result
Route(w, action) ==
  LET agent_type == Get(action, "agent", "")
  IN IF agent_type = "inventory"
     THEN Propagated(InventoryManagerAgent_execute_action(w, action))
     ELSE IF agent_type = "agv"
     THEN Propagated(AGVPlannerAgent_execute_action(w, action))
     ELSE IF agent_type = "restock"
     THEN Propagated(RestockAgent_execute_action(w, action))
     ELSE IF agent_type = "warehouse"
     THEN Propagated(Warehouse_process_action(w, action))
     ELSE Out(w, Fail("Unknown agent type"))

\* a journal that puts the newest entry first
_log_action_NewestFirst(history, action) ==
  <<[type |-> "action", action |-> action]>> \o history

_log_action(history, action) ==
  Append(history, [type |-> "action", action |-> action])

_log_result(history, action, r) ==
  Append(history, [type |-> "result", action |-> action, result |-> r])

\* what execute_action returns once the routed agent produced outcome o:
\* an exception leaves before _log_result
Journaled(h1, action, o) ==
  IF o.raised
  THEN [w |-> o.w, history |-> h1, result |-> o.result, raised |-> TRUE]
  ELSE [w |-> o.w, history |-> _log_result(h1, action, o.result),
        result |-> o.result, raised |-> FALSE]

\* get_action_history: the last `limit` entries, or the journal itself
get_action_history(history, limit) ==
  IF limit > 0
  THEN SubSeq(history, Max(1, Len(history) - limit + 1), Len(history))
  ELSE history

\* analyze_warehouse_state: counts over the state view and the kinds of
\* recommendation they give rise to
analyze_warehouse_state(w) ==
  LET state == get_warehouse_state(w)
      items_below_threshold ==
        {p \in DOMAIN state.inventory : state.inventory[p].needs_restock}
      available_agvs ==
        {a \in DOMAIN state.agvs : state.agvs[a].is_available}
      pending_orders ==
        {o \in DOMAIN state.orders : state.orders[o].status = "pending"}
  IN [recommendations |->
        (IF items_below_threshold /= {} THEN <<"restock">> ELSE << >>)
        \o (IF available_agvs = {} THEN <<"agv_availability">> ELSE << >>)
        \o (IF pending_orders /= {} THEN <<"order_processing">> ELSE << >>),
      summary |->
        [inventory_items |-> Cardinality(DOMAIN state.inventory),
         items_below_threshold |-> Cardinality(items_below_threshold),
         agvs |-> Cardinality(DOMAIN state.agvs),
         available_agvs |-> Cardinality(available_agvs),
         pending_orders |-> Cardinality(pending_orders)]]

\* an execute_action that accepts the 'action' key in place of the type
Coordinator_execute_action_ByAction(c, action) ==
  IF ~Truthy(action, "type") /\ ~Truthy(action, "action")
  THEN [w |-> c.w, history |-> c.history,
        result |-> Fail("No action type specified"), raised |-> FALSE]
  ELSE Journaled(_log_action(c.history, action), action,
                 Route(c.w, action))

\* c = [w, history]; the outcome adds the returned result
Coordinator_execute_action(c, action) ==
  IF ~Truthy(action, "type")
  THEN [w |-> c.w, history |-> c.history,
        result |-> Fail("No action type specified"), raised |-> FALSE]
  ELSE Journaled(_log_action(c.history, action), action,
                 Route(c.w, action))

\* execute_plan's loop from action i on; returns [w, history, results,
\* raised, dispatched], dispatched counting the actions handed to
\* execute_action.  PlanStep is one iteration, given execute_action's outcome.
RECURSIVE PlanLoop(_, _, _, _)
\* one iteration that does not break on a failed result
PlanStep_KeepsGoing(o, plan, results, i) ==
  IF o.raised
  THEN [w |-> o.w, history |-> o.history, results |-> results,
        raised |-> TRUE, dispatched |-> i]
  ELSE PlanLoop([w |-> o.w, history |-> o.history], plan,
                Append(results, o.result), i + 1)

PlanStep(o, plan, results, i) ==
  IF o.raised
  THEN [w |-> o.w, history |-> o.history, results |-> results,
        raised |-> TRUE, dispatched |-> i]
  ELSE IF ~Get(o.result, "success", FALSE)
  THEN [w |-> o.w, history |-> o.history,
        results |-> Append(results, o.result),
        raised |-> FALSE, dispatched |-> i]
  ELSE PlanLoop([w |-> o.w, history |-> o.history], plan,
                Append(results, o.result), i + 1)

PlanLoop(c, plan, results, i) ==
  IF i > Len(plan)
  THEN [w |-> c.w, history |-> c.history, results |-> results,
        raised |-> FALSE, dispatched |-> i - 1]
  ELSE PlanStep(Coordinator_execute_action(c, plan[i]), plan, results, i)

Coordinator_execute_plan(c, plan) == PlanLoop(c, plan, << >>, 1)

---------------------------------------------------------------------------
(* Background execution of the assistant's actions: api/routes.py *)

\* the loop of execute_actions_in_background from action i on: every action
\* is handed to execute_action and its result dropped; an exception ends the
\* loop and is logged.  Returns [w, history, dispatched, raised].
RECURSIVE BackgroundLoop(_, _, _)
BackgroundStep(o, actions, i) ==
  IF o.raised
  THEN [w |-> o.w, history |-> o.history, dispatched |-> i, raised |-> TRUE]
  ELSE BackgroundLoop([w |-> o.w, history |-> o.history], actions, i + 1)

BackgroundLoop(c, actions, i) ==
  IF i > Len(actions)
  THEN [w |-> c.w, history |-> c.history, dispatched |-> i - 1,
        raised |-> FALSE]
  ELSE BackgroundStep(Coordinator_execute_action(c, actions[i]), actions, i)

\* a task that applies the actions but leaves no journal entry
execute_actions_in_background_Unjournaled(c, actions) ==
  [BackgroundLoop(c, actions, 1) EXCEPT !.history = c.history]

execute_actions_in_background(c, actions) == BackgroundLoop(c, actions, 1)

---------------------------------------------------------------------------
(* Inputs *)

\* quantity arguments: the smallest and the largest positive one, and for
\* the handlers that take any integer also zero and a negative one
Qtys == {1, MaxQty}
AnyQtys == {-1, 0} \cup Qtys
Destinations == {"storage_a", "charging_station"}
Statuses == {"idle", "maintenance"}

\* an action dictionary as the request surface builds it
Act(agent, name, params) ==
  [type |-> name, agent |-> agent, action |-> name] @@ params

InventoryActions ==
  {Act("inventory", "check_inventory", [product_id |-> p]) :
     p \in {"P001", UnknownProduct}}
  \cup {Act("inventory", "update_inventory",
            [product_id |-> "P001", quantity |-> q]) :
          q \in {-1, 0, ItemCap + 1}}
  \cup {Act("inventory", n, [product_id |-> "P001", quantity |-> q]) :
          n \in {"add_inventory", "remove_inventory"}, q \in AnyQtys}
  \cup {Act("inventory", "add_inventory",
            [product_id |-> UnknownProduct, quantity |-> 1])}
  \cup {Act("inventory", "add_new_product",
            [product_data |-> [product_id |-> "P001", name |-> "new",
                               quantity |-> q, max_capacity |-> ItemCap]]) :
          q \in {0, ItemCap + 1}}

AgvActions ==
  {Act("agv", "move_agv", [agv_id |-> a, destination |-> d]) :
     a \in AgvIds, d \in {"storage_a", "nowhere"}}
  \cup {Act("agv", "charge_agv", [agv_id |-> a, amount |-> 100]) :
          a \in AgvIds}
  \cup {Act("agv", "load_agv",
            [agv_id |-> a, product_id |-> "P001", quantity |-> q]) :
          a \in AgvIds, q \in {0} \cup Qtys}
  \cup {Act("agv", "load_agv",
            [agv_id |-> a, product_id |-> "P002", quantity |-> 1]) :
          a \in AgvIds \cup {UnknownAgv}}
  \cup {Act("agv", "unload_agv",
            [agv_id |-> a, product_id |-> "P001", quantity |-> q]) :
          a \in AgvIds, q \in AnyQtys}
  \cup {Act("agv", "unload_agv", [agv_id |-> a, product_id |-> p]) :
          a \in AgvIds, p \in ProductIds}
  \cup {Act("agv", "get_available_agvs", << >>)}

RestockAmounts == AnyQtys \cup {ItemCap, 95}

RestockActions ==
  {Act("restock", "get_restock_needs", << >>)}
  \cup {Act("restock", "plan_restock", [product_id |-> p]) :
          p \in ProductIds \cup {UnknownProduct}}
  \cup {Act("restock", "execute_restock",
            [product_id |-> "P001", agv_id |-> "AGV001",
             restock_amount |-> q]) : q \in RestockAmounts}
  \cup {Act("restock", "execute_restock",
            [product_id |-> "P001", agv_id |-> "AGV002",
             restock_amount |-> q]) : q \in {1, ItemCap}}
  \cup {Act("restock", "execute_restock",
            [product_id |-> p, agv_id |-> a, restock_amount |-> 1]) :
          p \in {"P002", UnknownProduct}, a \in {"AGV001", UnknownAgv}}

WarehouseActions ==
  {Act("warehouse", "move_agv", [agv_id |-> a, location |-> d]) :
     a \in AgvIds, d \in {"storage_a", "charging_station"}}
  \cup {Act("warehouse", n,
            [agv_id |-> a, product_id |-> "P001", quantity |-> q]) :
          n \in {"pick_item", "restock_item"}, a \in AgvIds, q \in AnyQtys}
  \cup {Act("warehouse", "pick_item",
            [agv_id |-> UnknownAgv, product_id |-> "P001",
             quantity |-> 1])}
  \cup {Act("warehouse", "charge_agv", [agv_id |-> a, amount |-> 100]) :
          a \in AgvIds}

\* requests no handler knows, and one without a type
StrayActions ==
  {Act("inventory", "no_such_action", << >>),
   Act("agv", "no_such_action", << >>),
   Act("restock", "no_such_action", << >>),
   Act("warehouse", "no_such_action", << >>),
   Act("nobody", "check_inventory", [product_id |-> "P001"]),
   [type |-> "add_inventory", agent |-> "inventory",
    action |-> "no_such_action", product_id |-> "P001", quantity |-> 1],
   [type |-> "no_such_type", agent |-> "warehouse", action |-> "move_agv",
    agv_id |-> "AGV001", location |-> "storage_a"],
   [agent |-> "inventory", action |-> "check_inventory",
    product_id |-> "P001"]}

Actions ==
  InventoryActions \cup AgvActions \cup RestockActions
  \cup WarehouseActions \cup StrayActions

---------------------------------------------------------------------------
(* State *)

World ==
  [items |-> items, item_order |-> item_order, agvs |-> agvs,
   stats |-> stats, inventory_file |-> inventory_file,
   agv_file |-> agv_file, trace |-> << >>,
   orders |-> orders, order_file |-> order_file]

SetWorld(w) ==
  /\ items' = w.items
  /\ item_order' = w.item_order
  /\ agvs' = w.agvs
  /\ stats' = w.stats
  /\ inventory_file' = w.inventory_file
  /\ agv_file' = w.agv_file
  /\ trace' = w.trace
  /\ orders' = w.orders
  /\ order_file' = w.order_file

NewItem(quantity, location, min_threshold, max_capacity) ==
  [quantity |-> quantity, location |-> location,
   min_threshold |-> min_threshold, max_capacity |-> max_capacity]

NewAGV(location, status, battery_level, max_capacity, current_load) ==
  [location |-> location, status |-> status,
   battery_level |-> battery_level, max_capacity |-> max_capacity,
   current_load |-> current_load]

ZeroStats ==
  [orders_processed |-> 0, items_picked |-> 0, items_restocked |-> 0,
   agv_movements |-> 0]

NoRequest == [op |-> "none"]

\* the state after construction from consistent snapshot files
InitLedgers(its, order, fleet, ords) ==
  /\ items = its
  /\ item_order = order
  /\ agvs = fleet
  /\ stats = ZeroStats
  /\ inventory_file = its
  /\ agv_file = fleet
  /\ action_history = << >>
  /\ request = NoRequest
  /\ result = NoRequest
  /\ trace = << >>
  /\ ops = 0
  /\ background = << >>
  /\ orders = ords
  /\ order_file = ords
  /\ running = << >>

\* the same with no order on file
InitWith(its, order, fleet) == InitLedgers(its, order, fleet, << >>)

\* the second agent as Init draws it
SecondAgents ==
  {NewAGV("storage_a", "idle", 100, AgvCap, << >>),
   NewAGV("storage_a", "maintenance", 100, AgvCap, << >>),
   NewAGV("storage_a", "idle", 20, AgvCap, << >>),
   NewAGV("storage_a", "idle", 100, AgvCap, [p \in {"P001"} |-> AgvCap]),
   NewAGV("receiving", "idle", 4, AgvCap, [p \in {"P001"} |-> 1])}

\* two registered products, two agents
InitSmall ==
  \E q1 \in {0, ItemCap - 1, ItemCap}, agv2 \in SecondAgents :
    InitWith(
      [p \in ProductIds |->
         IF p = "P001" THEN NewItem(q1, "storage_a", 1, ItemCap)
         ELSE NewItem(0, "storage_b", 1, ItemCap)],
      <<"P001", "P002">>,
      [a \in AgvIds |->
         IF a = "AGV001"
         THEN NewAGV("charging_station", "idle", 100, AgvCap, << >>)
         ELSE agv2])

\* the full restock cycle scenario: P001 {5, 10, 100}, one idle agent
InitScenario ==
  InitWith(
    [p \in {"P001"} |-> NewItem(5, "storage_a", 10, 100)],
    <<"P001">>,
    [a \in AgvIds |->
       IF a = "AGV001"
       THEN NewAGV("charging_station", "idle", 100, 100, << >>)
       ELSE NewAGV("receiving", "maintenance", 100, 100, << >>)])

Init == InitSmall \/ InitScenario

---------------------------------------------------------------------------
(* Operations served directly by the managers and the agents.  One caller: *)
(* a call is served, its result is taken, then the next call is made.      *)

CanCall == ops < MaxOps /\ request = NoRequest

Served(req, res) ==
  /\ request' = req
  /\ result' = res
  /\ ops' = ops + 1
  /\ background' = background
  /\ running' = running

\* the caller takes the result
Return ==
  /\ request /= NoRequest
  /\ request' = NoRequest
  /\ result' = NoRequest
  /\ trace' = << >>
  /\ UNCHANGED <<items, item_order, agvs, stats, inventory_file, agv_file,
                 action_history, ops, background, orders, order_file,
                 running>>

AddQuantity(p, n) ==
  /\ CanCall
  /\ LET r == add_quantity(World, p, n)
     IN SetWorld(r.w)
        /\ Served([op |-> "add_quantity", product_id |-> p, amount |-> n],
                  [ret |-> r.ret])
  /\ UNCHANGED action_history

RemoveQuantity(p, n) ==
  /\ CanCall
  /\ LET r == remove_quantity(World, p, n)
     IN SetWorld(r.w)
        /\ Served([op |-> "remove_quantity", product_id |-> p, amount |-> n],
                  [ret |-> r.ret])
  /\ UNCHANGED action_history

UpdateQuantity(p, q) ==
  /\ CanCall
  /\ LET r == update_quantity(World, p, q)
     IN SetWorld(r.w)
        /\ Served([op |-> "update_quantity", product_id |-> p,
                   new_quantity |-> q],
                  [ret |-> r.ret])
  /\ UNCHANGED action_history

UpdateAgvStatus(a, st) ==
  /\ CanCall
  /\ LET r == update_agv_status(World, a, st)
     IN SetWorld(r.w)
        /\ Served([op |-> "update_agv_status", agv_id |-> a, status |-> st],
                  [ret |-> r.ret])
  /\ UNCHANGED action_history

MoveAgv(a, d) ==
  /\ CanCall
  /\ LET r == move_agv(World, a, d)
     IN SetWorld(r.w)
        /\ Served([op |-> "move_agv", agv_id |-> a, location |-> d],
                  [ret |-> r.ret])
  /\ UNCHANGED action_history

LoadAgv(a, p, q) ==
  /\ CanCall
  /\ LET r == load_agv(World, a, p, q)
     IN SetWorld(r.w)
        /\ Served([op |-> "load_agv", agv_id |-> a, product_id |-> p,
                   quantity |-> q],
                  [ret |-> r.ret])
  /\ UNCHANGED action_history

UnloadAgv(a, p, q) ==
  /\ CanCall
  /\ LET r == unload_agv(World, a, p, q)
     IN SetWorld(r.w)
        /\ Served([op |-> "unload_agv", agv_id |-> a, product_id |-> p,
                   quantity |-> q],
                  [unloaded |-> r.ret])
  /\ UNCHANGED action_history

ChargeAgv(a, amount) ==
  /\ CanCall
  /\ LET r == charge_agv(World, a, amount)
     IN SetWorld(r.w)
        /\ Served([op |-> "charge_agv", agv_id |-> a, amount |-> amount],
                  [ret |-> r.ret])
  /\ UNCHANGED action_history

\* the state once a handler returned the outcome o to the request req
Took(o, req) ==
  /\ SetWorld(o.w)
  /\ Served(req, IF o.raised THEN [raised |-> o.result] ELSE o.result)

\* an agent's execute_action (or Warehouse.process_action) called directly
AgentExecuteAction(action) ==
  /\ CanCall
  /\ Took(Route(World, action),
          [op |-> "agent_execute_action", action |-> action])
  /\ UNCHANGED action_history

NextCore ==
  \/ \E p \in ProductIds, n \in Qtys : AddQuantity(p, n)
  \/ \E p \in ProductIds, n \in Qtys : RemoveQuantity(p, n)
  \/ \E p \in ProductIds, q \in {-1, 0, ItemCap, ItemCap + 1} :
       UpdateQuantity(p, q)
  \/ \E a \in AgvIds, st \in Statuses : UpdateAgvStatus(a, st)
  \/ \E a \in AgvIds, d \in Destinations : MoveAgv(a, d)
  \/ \E a \in AgvIds, p \in ProductIds, q \in Qtys : LoadAgv(a, p, q)
  \/ \E a \in AgvIds, q \in {None} \cup {Some(n) : n \in Qtys} :
       UnloadAgv(a, "P001", q)
  \/ \E a \in AgvIds : ChargeAgv(a, 100)
  \/ \E action \in Actions : AgentExecuteAction(action)
  \/ Return

SpecCore == Init /\ [][NextCore]_vars

---------------------------------------------------------------------------
(* Requests served by the Coordinator *)

\* the state once the Coordinator returned the outcome o
TookJournaled(o, req) ==
  /\ Took(o, req)
  /\ action_history' = o.history

TookPlan(o, req) ==
  /\ SetWorld(o.w)
  /\ action_history' = o.history
  /\ Served(req, [results |-> o.results, raised |-> o.raised])

ExecuteAction(action) ==
  /\ ops < MaxOps
  /\ TookJournaled(Coordinator_execute_action(
                     [w |-> World, history |-> action_history], action),
                   [op |-> "execute_action", action |-> action])

ExecutePlan(plan) ==
  /\ ops < MaxOps
  /\ TookPlan(Coordinator_execute_plan(
                [w |-> World, history |-> action_history], plan),
              [op |-> "execute_plan", plan |-> plan])

\* the requests the Coordinator is handed
CoordActions ==
  {Act("inventory", "check_inventory", [product_id |-> p]) :
     p \in {"P001", UnknownProduct}}
  \cup {Act("inventory", n, [product_id |-> "P001", quantity |-> 1]) :
          n \in {"add_inventory", "remove_inventory"}}
  \cup {Act("agv", "load_agv",
            [agv_id |-> a, product_id |-> "P001", quantity |-> MaxQty]) :
          a \in AgvIds}
  \cup {Act("agv", "unload_agv", [agv_id |-> "AGV002",
                                  product_id |-> "P001"]),
        Act("warehouse", "move_agv", [agv_id |-> "AGV001",
                                      location |-> "storage_a"])}
  \cup {Act("warehouse", n, [agv_id |-> "AGV002", product_id |-> "P001",
                             quantity |-> q]) :
          n \in {"pick_item", "restock_item"}, q \in {-1, 1}}
  \cup {Act("restock", "get_restock_needs", << >>)}
  \cup {Act("restock", "plan_restock", [product_id |-> p]) :
          p \in ProductIds \cup {UnknownProduct}}
  \cup {Act("restock", "execute_restock",
            [product_id |-> "P001", agv_id |-> "AGV001",
             restock_amount |-> q]) : q \in {1, ItemCap}}
  \cup StrayActions

\* plans: the prefixes of a few action lists
PlanLists ==
  {<<Act("inventory", "check_inventory", [product_id |-> "P001"]),
     Act("inventory", "check_inventory", [product_id |-> UnknownProduct]),
     Act("inventory", "add_inventory",
         [product_id |-> "P001", quantity |-> 1]),
     Act("inventory", "check_inventory", [product_id |-> "P001"])>>,
   <<Act("restock", "plan_restock", [product_id |-> "P001"]),
     Act("restock", "plan_restock", [product_id |-> "P002"]),
     Act("restock", "execute_restock",
         [product_id |-> "P001", agv_id |-> "AGV001",
          restock_amount |-> 1]),
     Act("restock", "get_restock_needs", << >>)>>,
   <<Act("inventory", "add_inventory",
         [product_id |-> "P001", quantity |-> 1]),
     Act("warehouse", "move_agv",
         [agv_id |-> "AGV001", location |-> "storage_a"]),
     Act("warehouse", "pick_item",
         [agv_id |-> "AGV001", product_id |-> "P001", quantity |-> MaxQty]),
     Act("agv", "unload_agv", [agv_id |-> "AGV001",
                               product_id |-> "P001"])>>,
   <<Act("agv", "load_agv",
         [agv_id |-> "AGV002", product_id |-> "P001", quantity |-> 1]),
     Act("nobody", "check_inventory", [product_id |-> "P001"]),
     Act("inventory", "remove_inventory",
         [product_id |-> "P001", quantity |-> 1]),
     Act("inventory", "check_inventory", [product_id |-> "P001"])>>}

Plans == {SubSeq(l, 1, n) : l \in PlanLists, n \in 1..MaxPlanLen}

Next ==
  \/ \E action \in CoordActions : ExecuteAction(action)
  \/ \E plan \in Plans : ExecutePlan(plan)

Spec == Init /\ [][Next]_vars

---------------------------------------------------------------------------
(* Coordinator unload requests after loads made on the Fleet Registry      *)
(* itself: AGVManager.load_agv does not consult the Ledger, so an agent    *)
(* can carry a product the Ledger has no item for.                         *)

UnloadRequests ==
  {Act("agv", "unload_agv", [agv_id |-> a, product_id |-> p]) :
     a \in AgvIds, p \in ProductIds}
  \cup {Act("agv", "unload_agv",
            [agv_id |-> a, product_id |-> p, quantity |-> q]) :
          a \in AgvIds, p \in ProductIds, q \in {-1, 1}}

NextFleet ==
  \/ \E a \in AgvIds, p \in ProductIds, q \in Qtys : LoadAgv(a, p, q)
  \/ \E action \in UnloadRequests : ExecuteAction(action)
  \/ Return

SpecFleet == Init /\ [][NextFleet]_vars

---------------------------------------------------------------------------
(* Coordinator requests served while the snapshot files may be unwritable *)

\* the world as a call finds it when the disk refuses writes
FailingWorld == [write_fails |-> TRUE] @@ World

ExecuteActionOnDisk(action, write_fails) ==
  /\ ops < MaxOps
  /\ TookJournaled(Coordinator_execute_action(
                     [w |-> IF write_fails THEN FailingWorld ELSE World,
                      history |-> action_history], action),
                   [op |-> "execute_action", action |-> action,
                    write_fails |-> write_fails])

NextDisk ==
  \E action \in CoordActions, write_fails \in BOOLEAN :
    ExecuteActionOnDisk(action, write_fails)

SpecDisk == Init /\ [][NextDisk]_vars

---------------------------------------------------------------------------
(* Questions to the assistant: the actions found in its answer are run by  *)
(* a background task after the response, between other requests.           *)

\* the action lists the assistant's answer may hold
ExtractedActions ==
  {<< >>} \cup {SubSeq(l, 1, MaxPlanLen) : l \in PlanLists}

\* ask_agent: answers, and adds a background task when actions were found
AskAgent(actions) ==
  /\ ops < MaxOps
  /\ request' = [op |-> "ask_agent", actions |-> actions]
  /\ result' = [success |-> TRUE, actions |-> actions]
  /\ ops' = ops + 1
  /\ background' = IF actions /= << >> THEN Append(background, actions)
                   ELSE background
  /\ trace' = << >>
  /\ UNCHANGED <<items, item_order, agvs, stats, inventory_file, agv_file,
                 action_history, orders, order_file, running>>

\* the state once the background task ended with outcome o
TookBackground(o, actions) ==
  /\ SetWorld(o.w)
  /\ action_history' = o.history
  /\ request' = [op |-> "background", actions |-> actions]
  /\ result' = [dispatched |-> o.dispatched, raised |-> o.raised]

\* the oldest background task runs
RunBackground ==
  /\ background /= << >>
  /\ TookBackground(execute_actions_in_background(
                      [w |-> World, history |-> action_history],
                      Head(background)),
                    Head(background))
  /\ background' = Tail(background)
  /\ ops' = ops
  /\ running' = running

\* requests submitted directly between the questions
DirectActions ==
  {Act("inventory", "add_inventory", [product_id |-> "P001", quantity |-> 1]),
   Act("inventory", "remove_inventory",
       [product_id |-> "P001", quantity |-> 1]),
   Act("agv", "load_agv",
       [agv_id |-> "AGV001", product_id |-> "P001", quantity |-> MaxQty]),
   Act("warehouse", "move_agv",
       [agv_id |-> "AGV001", location |-> "storage_a"])}

NextAsk ==
  \/ \E actions \in ExtractedActions : AskAgent(actions)
  \/ RunBackground
  \/ \E action \in DirectActions : ExecuteAction(action)

SpecAsk == Init /\ [][NextAsk]_vars

---------------------------------------------------------------------------
(* Calls made on the Fleet Registry alone *)

\* charge amounts: one that takes away, a partial one, the default
ChargeAmounts == {-50, 30, 100}

NextRegistry ==
  \/ \E a \in AgvIds \cup {UnknownAgv}, d \in Destinations : MoveAgv(a, d)
  \/ \E a \in AgvIds, p \in ProductIds, q \in Qtys : LoadAgv(a, p, q)
  \/ \E a \in AgvIds \cup {UnknownAgv},
        q \in {None} \cup {Some(n) : n \in AnyQtys \cup {AgvCap + 1}} :
       UnloadAgv(a, "P001", q)
  \/ \E a \in AgvIds, amount \in ChargeAmounts : ChargeAgv(a, amount)
  \/ \E a \in AgvIds, st \in Statuses : UpdateAgvStatus(a, st)
  \/ Return

SpecRegistry == Init /\ [][NextRegistry]_vars

---------------------------------------------------------------------------
(* The event loop: every endpoint and the background task are coroutines  *)
(* of one loop.  A coroutine that has started keeps the loop until it     *)
(* ends or reaches an await expression.  The two-phase protocols of the   *)
(* planner are run here phase by phase, so that the state between the     *)
(* phases is a state of the model.                                        *)

\* the positions at which a coroutine awaits: api/routes.py has no await
\* expression, neither in the endpoints nor in the background task
AwaitPoints_BetweenPhases == {"mid"}

AwaitPoints == {}

\* the state a planner load_agv / unload_agv is in between its two phases
\* (Ledger debited and agent not yet loaded; agent unloaded and Ledger not
\* yet credited), when the action gets that far
FirstPhase(w, action) ==
  LET whole == [half |-> FALSE, w |-> w]
      name == Get(action, "action", "")
  IN IF ~(Truthy(action, "type") /\ Get(action, "agent", "") = "agv"
          /\ Truthy(action, "agv_id") /\ Truthy(action, "product_id"))
     THEN whole
     ELSE IF action.agv_id \notin DOMAIN w.agvs THEN whole
     ELSE IF name = "load_agv"
     THEN LET quantity == Get(action, "quantity", 1)
          IN IF quantity <= 0 \/ action.product_id \notin DOMAIN w.items
             THEN whole
             ELSE LET item == w.items[action.product_id]
                      w1 == IF w.agvs[action.agv_id].location /= item.location
                            THEN move_agv(w, action.agv_id, item.location).w
                            ELSE w
                      rm == remove_quantity(w1, action.product_id, quantity)
                  IN IF item.quantity >= quantity /\ rm.ret
                     THEN [half |-> TRUE, w |-> rm.w]
                     ELSE whole
     ELSE IF name = "unload_agv"
     THEN IF action.product_id \notin DOMAIN w.agvs[action.agv_id].current_load
          THEN whole
          ELSE LET un == unload_agv(w, action.agv_id, action.product_id,
                                    IF Has(action, "quantity")
                                    THEN Some(action.quantity) ELSE None)
               IN IF un.ret > 0 /\ action.product_id \in DOMAIN un.w.items
                  THEN [half |-> TRUE, w |-> un.w]
                  ELSE whole
     ELSE whole

NoStart == [w |-> << >>, history |-> << >>]

\* a coroutine that is not holding the loop
Suspended(t) == t.pc = "new" \/ t.pc \in AwaitPoints

\* a request arrives: its coroutine is created and waits for the loop
Arrive(kind, todo) ==
  /\ ops < MaxOps
  /\ running' = Append(running, [id |-> ops + 1, kind |-> kind,
                                 todo |-> todo, pc |-> "new",
                                 c0 |-> NoStart])
  /\ ops' = ops + 1
  /\ request' = [op |-> "arrive", kind |-> kind, actions |-> todo]
  /\ result' = NoRequest
  /\ trace' = << >>
  /\ UNCHANGED <<items, item_order, agvs, stats, inventory_file, agv_file,
                 action_history, background, orders, order_file>>

\* coroutine i stands between the two phases of its action
Halfway(i, c, w1, action) ==
  /\ SetWorld(w1)
  /\ action_history' = _log_action(c.history, action)
  /\ running' = [running EXCEPT ![i].pc = "mid", ![i].c0 = c]
  /\ request' = [op |-> "run", task |-> running[i].id, phase |-> "begin",
                 action |-> action]
  /\ result' = NoRequest
  /\ UNCHANGED <<ops, background>>

\* coroutine i has its action done with outcome o: an execute_plan stops at
\* the first failure, every coroutine at an exception or its last action
Ended(i, o, phase) ==
  LET t == running[i]
      rest == Tail(t.todo)
      stop == \/ rest = << >>
              \/ o.raised
              \/ t.kind = "execute_plan" /\ ~Get(o.result, "success", FALSE)
  IN /\ SetWorld(o.w)
     /\ action_history' = o.history
     /\ running' =
          IF stop
          THEN SubSeq(running, 1, i - 1) \o SubSeq(running, i + 1, Len(running))
          ELSE [running EXCEPT ![i].todo = rest, ![i].pc = "between",
                               ![i].c0 = NoStart]
     /\ request' = [op |-> "run", task |-> t.id, phase |-> phase,
                    action |-> Head(t.todo)]
     /\ result' = IF o.raised THEN [raised |-> o.result] ELSE o.result
     /\ UNCHANGED <<ops, background>>

\* the loop runs coroutine i up to its next position; it can only when no
\* other coroutine holds the loop
Run(i) ==
  /\ i \in DOMAIN running
  /\ \A j \in DOMAIN running \ {i} : Suspended(running[j])
  /\ IF running[i].pc = "mid"
     THEN Ended(i, Coordinator_execute_action(running[i].c0,
                                              Head(running[i].todo)), "end")
     ELSE IF FirstPhase(World, Head(running[i].todo)).half
     THEN Halfway(i, [w |-> World, history |-> action_history],
                  FirstPhase(World, Head(running[i].todo)).w,
                  Head(running[i].todo))
     ELSE Ended(i, Coordinator_execute_action(
                     [w |-> World, history |-> action_history],
                     Head(running[i].todo)), "whole")

\* the requests: one action, a plan, the actions extracted from an answer
LoopRequests ==
  LET load(a) == Act("agv", "load_agv",
                     [agv_id |-> a, product_id |-> "P001", quantity |-> 1])
      unload(a) == Act("agv", "unload_agv",
                       [agv_id |-> a, product_id |-> "P001"])
      check == Act("inventory", "check_inventory", [product_id |-> "P001"])
  IN {[kind |-> "execute_action", todo |-> <<x>>] :
        x \in {load("AGV001"), load("AGV002"), unload("AGV002"), check}}
     \cup {[kind |-> "execute_plan", todo |-> l] :
             l \in {<<load("AGV002"), unload("AGV002")>>,
                    <<unload("AGV001"), check>>}}
     \cup {[kind |-> "background", todo |-> l] :
             l \in {<<unload("AGV001"), load("AGV001")>>}}

NextLoop ==
  \/ \E r \in LoopRequests : Arrive(r.kind, r.todo)
  \/ \E i \in 1..MaxOps : Run(i)

SpecLoop == Init /\ [][NextLoop]_vars

---------------------------------------------------------------------------
(* Products are registered through the Coordinator next to the inventory *)
(* and agent actions                                                     *)

NewProductActions ==
  {Act("inventory", "add_new_product",
       [product_data |-> [product_id |-> p, name |-> "new",
                          quantity |-> q, max_capacity |-> ItemCap]]) :
     p \in {"P001", UnknownProduct}, q \in {0, 1}}

NextCatalogue ==
  \E action \in NewProductActions
                 \cup {a \in CoordActions : a.agent \in {"inventory", "agv"}} :
    ExecuteAction(action)

SpecCatalogue == Init /\ [][NextCatalogue]_vars

---------------------------------------------------------------------------
(* The Order Ledger: orders are created, changed and viewed *)

OrderIds == {"O1", "O2", "O3"}
UnknownOrder == "O404"

OrderLine(p, n) == [product_id |-> p, quantity |-> n]

\* O1 is on file in any of four statuses, O2 is on file pending or not at all
InitOrders ==
  \E s1 \in {"pending", "shipping", "completed", "cancelled"},
     present \in SUBSET {"O2"} :
    InitLedgers(
      [p \in ProductIds |-> NewItem(ItemCap - 1, "storage_a", 1, ItemCap)],
      <<"P001", "P002">>,
      [a \in AgvIds |->
         NewAGV("charging_station", "idle", 100, AgvCap, << >>)],
      [o \in {"O1"} \cup present |->
         NewOrder("C001", <<OrderLine("P001", 1)>>,
                  IF o = "O1" THEN s1 ELSE "pending", 1)])

\* a manager call served: the world it left and its return value
TookOrders(r, req) ==
  /\ SetWorld(r.w)
  /\ Served(req, [ret |-> r.ret])
  /\ UNCHANGED action_history

CreateOrder(order_id, product_id) ==
  /\ CanCall
  /\ order_id \notin DOMAIN orders
  /\ TookOrders(create_order(World, order_id, "C002",
                             <<OrderLine(product_id, 1)>>, 1),
                [op |-> "create_order", product_id |-> product_id])

UpdateOrderStatus(order_id, status) ==
  /\ CanCall
  /\ TookOrders(update_order_status(World, order_id, status),
                [op |-> "update_order_status", order_id |-> order_id,
                 status |-> status])

AddItemToOrder(order_id, product_id) ==
  /\ CanCall
  /\ TookOrders(add_item_to_order(World, order_id, product_id, 1),
                [op |-> "add_item_to_order", order_id |-> order_id,
                 product_id |-> product_id])

RemoveItemFromOrder(order_id, product_id) ==
  /\ CanCall
  /\ TookOrders(remove_item_from_order(World, order_id, product_id),
                [op |-> "remove_item_from_order", order_id |-> order_id,
                 product_id |-> product_id])

CancelOrder(order_id) ==
  /\ CanCall
  /\ TookOrders(cancel_order(World, order_id),
                [op |-> "cancel_order", order_id |-> order_id])

CompleteOrder(order_id) ==
  /\ CanCall
  /\ TookOrders(complete_order(World, order_id),
                [op |-> "complete_order", order_id |-> order_id])

GetWarehouseState ==
  /\ CanCall
  /\ Served([op |-> "get_warehouse_state"], get_warehouse_state(World))
  /\ UNCHANGED <<items, item_order, agvs, stats, inventory_file, agv_file,
                 action_history, trace, orders, order_file>>

ProcessOrderActions ==
  {[type |-> "process_order", agent |-> "warehouse", order_id |-> o,
    status |-> st] :
     o \in {"O1", UnknownOrder}, st \in {"completed", "cancelled", "lost"}}
  \cup {[type |-> "process_order", agent |-> "warehouse", order_id |-> "O1"]}

NextOrders ==
  \/ \E o \in OrderIds, p \in ProductIds : CreateOrder(o, p)
  \/ \E o \in {"O1", UnknownOrder}, st \in OrderStatuses :
       UpdateOrderStatus(o, st)
  \/ \E o \in {"O1", UnknownOrder}, p \in ProductIds : AddItemToOrder(o, p)
  \/ \E o \in {"O1", UnknownOrder}, p \in ProductIds :
       RemoveItemFromOrder(o, p)
  \/ \E o \in {"O1", "O2", UnknownOrder} : CancelOrder(o)
  \/ \E o \in {"O1", "O2", UnknownOrder} : CompleteOrder(o)
  \/ GetWarehouseState
  \/ \E action \in ProcessOrderActions :
       CanCall /\ ExecuteAction(action)
  \/ Return

SpecOrders == InitOrders /\ [][NextOrders]_vars

---------------------------------------------------------------------------
(* The restock agent is asked to plan and to execute while the fleet and *)
(* the Order Ledger change                                                *)

RestockRequests ==
  RestockActions
  \cup {Act("restock", "execute_restock",
            [product_id |-> UnknownProduct, restock_amount |-> 1]),
        Act("restock", "execute_restock",
            [agv_id |-> UnknownAgv, restock_amount |-> 1]),
        Act("restock", "execute_restock",
            [product_id |-> UnknownProduct, agv_id |-> "AGV002",
             restock_amount |-> 1])}

NextRestock ==
  \/ \E action \in RestockRequests : AgentExecuteAction(action)
  \/ \E a \in AgvIds, st \in Statuses : UpdateAgvStatus(a, st)
  \/ \E a \in AgvIds : LoadAgv(a, "P001", 1)
  \/ CreateOrder("O1", "P001")
  \/ Return

SpecRestock == Init /\ [][NextRestock]_vars

---------------------------------------------------------------------------
(* The Action Journal is written by actions and plans and read by the *)
(* history and analysis requests                                      *)

GetActionHistory(limit) ==
  /\ ops < MaxOps
  /\ Served([op |-> "get_action_history", limit |-> limit],
            [logs |-> get_action_history(action_history, limit)])
  /\ UNCHANGED <<items, item_order, agvs, stats, inventory_file, agv_file,
                 action_history, trace, orders, order_file>>

AnalyzeWarehouseState ==
  /\ ops < MaxOps
  /\ Served([op |-> "analyze_warehouse_state"],
            analyze_warehouse_state(World))
  /\ UNCHANGED <<items, item_order, agvs, stats, inventory_file, agv_file,
                 action_history, trace, orders, order_file>>

NextJournal ==
  \/ \E action \in DirectActions : ExecuteAction(action)
  \/ \E plan \in ExtractedActions \ {<< >>} : ExecutePlan(plan)
  \/ \E limit \in {-1, 0, 1, 10} : GetActionHistory(limit)
  \/ AnalyzeWarehouseState

SpecJournal == Init /\ [][NextJournal]_vars

---------------------------------------------------------------------------
(* The Coordinator is handed move and charge requests for both agents, and *)
(* requests whose type is missing or empty                                 *)

MoveChargeActions ==
  {a \in AgvActions \cup WarehouseActions :
     a.type \in {"move_agv", "charge_agv"}}

\* the request without its 'type' key
Untyped(action) == [k \in DOMAIN action \ {"type"} |-> action[k]]

UntypedActions ==
  {Untyped(a) :
     a \in {Act("inventory", "add_inventory",
                [product_id |-> "P001", quantity |-> 1]),
            Act("agv", "move_agv",
                [agv_id |-> "AGV001", destination |-> "storage_a"]),
            Act("restock", "execute_restock",
                [product_id |-> "P001", agv_id |-> "AGV001",
                 restock_amount |-> 1]),
            Act("warehouse", "move_agv",
                [agv_id |-> "AGV001", location |-> "storage_a"]),
            Act("warehouse", "process_order",
                [order_id |-> "O1", status |-> "completed"]),
            Act("nobody", "check_inventory", [product_id |-> "P001"])}}
  \cup {[Act("inventory", "add_inventory",
             [product_id |-> "P001", quantity |-> 1]) EXCEPT !.type = ""]}

NextDispatch ==
  \/ \E action \in MoveChargeActions : ExecuteAction(action)
  \/ \E action \in UntypedActions : ExecuteAction(action)
  \/ CreateOrder("O1", "P001")
  \/ Return

SpecDispatch == Init /\ [][NextDispatch]_vars

---------------------------------------------------------------------------

(* Restock needs of a ledger whose quantities and thresholds are drawn *)

InitPriority ==
  \E t1 \in 1..MaxThreshold, t2 \in {3, 10} :
    \E q1 \in 0..(t1 + 1), q2 \in 0..t2 :
      InitWith(
        [p \in ProductIds |->
           IF p = "P001" THEN NewItem(q1, "storage_a", t1, 100)
           ELSE NewItem(q2, "storage_b", t2, 100)],
        <<"P001", "P002">>,
        [a \in AgvIds |->
           NewAGV("charging_station", "idle", 100, AgvCap, << >>)])

NextPriority ==
  \/ AgentExecuteAction(Act("restock", "get_restock_needs", << >>))
  \/ Return

SpecPriority == InitPriority /\ [][NextPriority]_vars

---------------------------------------------------------------------------
(* Properties.  In a step that serves a call, the unprimed variables are   *)
(* the state the call found and the primed ones the state it left, with    *)
(* request', result' and trace' the call, its return value and the manager *)
(* calls it made.                                                          *)

\* req is the action `name` handed to the agent of kind `agent`
IsAgentCall(req, agent, name) ==
  /\ req.op = "agent_execute_action"
  /\ Get(req.action, "agent", "") = agent
  /\ Get(req.action, "type", "") = name

WithinCapacity(item) ==
  0 <= item.quantity /\ item.quantity <= item.max_capacity

\* the Ledger call req would take the item out of 0..max_capacity
LeavesBounds(req, item) ==
  IF req.op = "add_quantity"
  THEN item.quantity + req.amount > item.max_capacity
  ELSE IF req.op = "remove_quantity"
  THEN item.quantity - req.amount < 0
  ELSE req.new_quantity < 0 \/ req.new_quantity > item.max_capacity

C1_LedgerCall ==
  (/\ request'.op \in {"add_quantity", "remove_quantity", "update_quantity"}
   /\ request'.product_id \in DOMAIN items
   /\ WithinCapacity(items[request'.product_id]))
  => LET p == request'.product_id
     IN /\ WithinCapacity(items'[p])
        /\ LeavesBounds(request', items[p])
             => result'.ret = FALSE /\ items'[p].quantity = items[p].quantity
        /\ result'.ret = FALSE => items'[p] = items[p]

\* C1: an add_quantity or remove_quantity call with a positive amount, or an
\* update_quantity call, on an item with 0 <= quantity <= max_capacity leaves
\* the item within 0 <= quantity <= max_capacity; a call that would leave
\* these bounds returns False and leaves quantity unchanged.  Holding at
\* every call, the bounds hold along every sequence of such calls.
C1_QuantityWithinBounds == [][C1_LedgerCall]_vars

\* a second Ledger call, an add to an item that is full, was refused
C1_Witness ==
  /\ ops = 2
  /\ request.op = "add_quantity"
  /\ request.product_id = "P001"
  /\ result.ret = FALSE
  /\ items["P001"].quantity = items["P001"].max_capacity

C5_LoadCall ==
  (request'.op = "load_agv" /\ request'.agv_id \in DOMAIN agvs)
  => LET a == request'.agv_id
         q == request'.quantity
     IN /\ result'.ret = TRUE
             => LoadTotal(agvs'[a].current_load) <= agvs'[a].max_capacity
        /\ (\/ agvs[a].status /= "idle"
            \/ LoadTotal(agvs[a].current_load) + q > agvs[a].max_capacity)
             => /\ result'.ret = FALSE
                /\ agvs'[a].current_load = agvs[a].current_load
                /\ agvs'[a].battery_level = agvs[a].battery_level

\* C5: after every successful AGVManager.load_agv call with a positive
\* quantity the agent's load total is at most its max_capacity; a call on a
\* non-idle agent, or with load total + quantity > max_capacity, returns
\* False and leaves current_load and battery unchanged.
C5_LoadWithinCapacity == [][C5_LoadCall]_vars

\* an idle agent loaded to capacity refused one more load
C5_Witness ==
  /\ request.op = "load_agv"
  /\ request.agv_id = "AGV001"
  /\ result.ret = FALSE
  /\ agvs["AGV001"].status = "idle"
  /\ LoadTotal(agvs["AGV001"].current_load) = agvs["AGV001"].max_capacity
  /\ agvs["AGV001"].max_capacity > 0

\* the preconditions C6 puts on execute_restock(p, a, n)
C6_Pre(act) ==
  /\ Has(act, "product_id") /\ Has(act, "agv_id")
  /\ Has(act, "restock_amount")
  /\ act.product_id \in DOMAIN items
  /\ act.agv_id \in DOMAIN agvs
  /\ agvs[act.agv_id].status = "idle"
  /\ DOMAIN agvs[act.agv_id].current_load = {}
  /\ act.restock_amount > 0
  /\ act.restock_amount <= agvs[act.agv_id].max_capacity
  /\ items[act.product_id].quantity + act.restock_amount
       <= items[act.product_id].max_capacity

C6_RestockCall ==
  (IsAgentCall(request', "restock", "execute_restock")
   /\ C6_Pre(request'.action))
  => LET p == request'.action.product_id
         a == request'.action.agv_id
         n == request'.action.restock_amount
     IN /\ result'.success = TRUE
        /\ trace' =
             << Call("move_agv", a, "", "receiving", None, TRUE, 0),
                Call("load_agv", a, p, "", Some(n), TRUE, 0),
                Call("move_agv", a, "", items[p].location, None, TRUE, 0),
                Call("unload_agv", a, p, "", Some(n), TRUE, n),
                Call("add_quantity", "", p, "", Some(n), TRUE, 0) >>
        /\ items'[p].quantity = items[p].quantity + n
        /\ agvs'[a].status = "idle"
        /\ agvs'[a].location = items[p].location
        /\ DOMAIN agvs'[a].current_load = {}
        /\ (items[p].quantity = 5 /\ items[p].min_threshold = 10
            /\ items[p].max_capacity = 100 /\ n = 95)
             => /\ items'[p].quantity = 100
                /\ ~InventoryItem_needs_restock(items'[p])

\* C6: execute_restock(p, a, n) for a registered item and a registered idle
\* agent with empty load, n > 0, n <= the agent's max_capacity and
\* quantity + n <= the item's max_capacity returns success; the agent is
\* moved to receiving, loaded with n, moved to the item's location and
\* unloaded, in that order; the Ledger quantity grows by exactly n and the
\* agent ends idle at the item's location with empty load.  The item
\* {quantity 5, min_threshold 10, max_capacity 100} with n = 95 ends with
\* quantity 100 and needs_restock false.
C6_RestockCycle == [][C6_RestockCall]_vars

\* the restock of P001 {5, 10, 100} by 95 just returned success
C6_Witness ==
  /\ IsAgentCall(request, "restock", "execute_restock")
  /\ request.action.restock_amount = 95
  /\ result.success = TRUE
  /\ Len(trace) = 5
  /\ items["P001"].quantity = 100
  /\ items["P001"].min_threshold = 10
  /\ agvs["AGV001"].location = "storage_a"

C9_PlanCall ==
  (/\ IsAgentCall(request', "restock", "plan_restock")
   /\ Get(request'.action, "product_id", "") \in DOMAIN items
   /\ items[request'.action.product_id].quantity
        > items[request'.action.product_id].min_threshold)
  => /\ result'.success = TRUE
     /\ Get(result', "restock_needed", TRUE) = FALSE
     /\ trace' = << >>
     /\ UNCHANGED <<items, item_order, agvs, stats, inventory_file, agv_file>>

\* C9: plan_restock_operation on a registered item with quantity >
\* min_threshold returns success = true and restock_needed = false, with or
\* without an available agent, and changes nothing in the Ledger or the
\* Fleet Registry.
C9_NoRestockNeeded == [][C9_PlanCall]_vars

\* a plan was asked for a stocked item while no agent was available
C9_Witness ==
  /\ IsAgentCall(request, "restock", "plan_restock")
  /\ request.action.product_id = "P001"
  /\ items["P001"].quantity > items["P001"].min_threshold
  /\ Get(result, "restock_needed", TRUE) = FALSE
  /\ get_available_agvs(World) = << >>

\* the manager calls tr hold a successful Ledger debit of p directly followed
\* by a failed agent load
DebitThenLoadFailed(tr, p) ==
  \E i \in 1..(Len(tr) - 1) :
    /\ tr[i].op = "remove_quantity" /\ tr[i].product_id = p /\ tr[i].ok
    /\ tr[i + 1].op = "load_agv" /\ ~tr[i + 1].ok

\* the manager calls tr hold an unload of n > 0 units of p from agent a
\* directly followed by a failed Ledger add
UnloadThenAddFailed(tr, a, p) ==
  \E i \in 1..(Len(tr) - 1) :
    /\ tr[i].op = "unload_agv" /\ tr[i].agv_id = a
    /\ tr[i].product_id = p /\ tr[i].unloaded > 0
    /\ tr[i + 1].op = "add_quantity" /\ ~tr[i + 1].ok

C2_LoadCall ==
  (/\ \/ IsAgentCall(request', "agv", "load_agv")
      \/ IsAgentCall(request', "warehouse", "pick_item")
   /\ Get(request'.action, "product_id", "") \in DOMAIN items
   /\ DebitThenLoadFailed(trace', request'.action.product_id))
  => items'[request'.action.product_id].quantity
       = items[request'.action.product_id].quantity

\* C2: when the AGV-planner load_agv action or the warehouse pick_item action
\* debits q units of p from the Ledger and the agent load that follows
\* fails, the Ledger quantity of p on return equals its value before the
\* call.
C2_DebitCompensated == [][C2_LoadCall]_vars

C3_RestockCall ==
  (/\ IsAgentCall(request', "restock", "execute_restock")
   /\ Get(request'.action, "product_id", "") \in DOMAIN items
   /\ Get(request'.action, "agv_id", "") \in DOMAIN agvs
   /\ UnloadThenAddFailed(trace', request'.action.agv_id,
                          request'.action.product_id))
  => LET p == request'.action.product_id
         a == request'.action.agv_id
     IN \* the load step added restock_amount to what the agent carried
        Get(agvs'[a].current_load, p, 0)
          = Get(agvs[a].current_load, p, 0) + request'.action.restock_amount

\* C3: when execute_restock's unload step returns a quantity > 0 and the
\* Ledger add_quantity that follows fails, the agent carries on return the
\* same amount of the product as immediately before the unload step.
C3_UnloadCompensated == [][C3_RestockCall]_vars

C4_UnloadCall ==
  (/\ \/ IsAgentCall(request', "agv", "unload_agv")
      \/ IsAgentCall(request', "warehouse", "restock_item")
   /\ Get(request'.action, "product_id", "") \in DOMAIN items
   /\ Get(request'.action, "agv_id", "") \in DOMAIN agvs
   /\ UnloadThenAddFailed(trace', request'.action.agv_id,
                          request'.action.product_id))
  => LET p == request'.action.product_id
         a == request'.action.agv_id
     IN /\ Get(agvs'[a].current_load, p, 0) = Get(agvs[a].current_load, p, 0)
        /\ items'[p].quantity = items[p].quantity

\* C4: when the AGV-planner unload_agv action or the warehouse restock_item
\* action unloads n > 0 units of a registered product and the Ledger
\* add_quantity fails, the agent's current_load for the product on return
\* equals its value before the call and the Ledger quantity is unchanged.
C4_ReloadCompensated == [][C4_UnloadCall]_vars

\* [w, history, results] once the first k actions of plan went through
\* execute_action one after the other, starting from c = [w, history]
RECURSIVE RunPrefix(_, _, _)
RunPrefix(c, plan, k) ==
  IF k = 0 THEN [w |-> c.w, history |-> c.history, results |-> << >>]
  ELSE LET before == RunPrefix(c, plan, k - 1)
           o == Coordinator_execute_action(
                  [w |-> before.w, history |-> before.history], plan[k])
       IN [w |-> o.w, history |-> o.history,
           results |-> Append(before.results, o.result)]

C7_PlanCall ==
  (request'.op = "execute_plan" /\ ~result'.raised)
  => LET plan == request'.plan
         results == result'.results
         k == Len(results)
         run == RunPrefix([w |-> World, history |-> action_history], plan, k)
     IN \* one result per dispatched action, the last one the first failure
        /\ 1 <= k /\ k <= Len(plan)
        /\ \A i \in 1..(k - 1) : results[i].success = TRUE
        /\ k < Len(plan) => results[k].success = FALSE
        /\ results = run.results
        \* the first k actions, and only they, were journaled and took effect
        /\ action_history' = run.history
        /\ Len(action_history') = Len(action_history) + 2 * k
        /\ items' = run.w.items /\ item_order' = run.w.item_order
        /\ agvs' = run.w.agvs /\ stats' = run.w.stats
        /\ inventory_file' = run.w.inventory_file
        /\ agv_file' = run.w.agv_file
        /\ trace' = run.w.trace

\* C7: execute_plan dispatches the actions in list order and stops after the
\* first action whose result has success false: it returns one result per
\* dispatched action, ending with the failing one (one per action when none
\* fails); no action after the first failure is dispatched, journaled or
\* changes any state, and the earlier actions' effects stay.
C7_PlanShortCircuit == [][C7_PlanCall]_vars

\* a plan of three actions stopped at its second one, the first one's load
\* of one unit of P001 onto AGV002 in place
C7_Witness ==
  /\ request.op = "execute_plan"
  /\ Len(request.plan) = 3
  /\ request.plan[1].action = "load_agv"
  /\ Len(result.results) = 2
  /\ result.results[1].success = TRUE
  /\ result.results[2].success = FALSE
  /\ ops = 1
  /\ Len(action_history) = 4
  /\ Len(trace) > 0
  /\ "P001" \in DOMAIN agvs["AGV002"].current_load

\* journal entry e is the result of a plan_restock that emitted a plan
IsPlanResult(e) ==
  /\ e.type = "result"
  /\ Get(e.action, "agent", "") = "restock"
  /\ Get(e.action, "action", "") = "plan_restock"
  /\ Has(e.action, "product_id")

\* C8: when exactly one agent is eligible and two plan_restock requests for
\* two products that both need restock are served back to back, before
\* either plan is executed, exactly one of them succeeds; the two never both
\* succeed bound to the same agent.
C8_NoDoubleBooking ==
  LET n == Len(action_history)
  IN (/\ n >= 4
      /\ IsPlanResult(action_history[n - 2])
      /\ IsPlanResult(action_history[n])
      /\ action_history[n - 2].action.product_id
           /= action_history[n].action.product_id
      /\ \A e \in {action_history[n - 2], action_history[n]} :
           /\ e.action.product_id \in DOMAIN items
           /\ InventoryItem_needs_restock(items[e.action.product_id])
      /\ Len(get_available_agvs(World)) = 1)
     => LET first == action_history[n - 2].result
            second == action_history[n].result
        IN /\ first.success /= second.success
           /\ ~(/\ first.success /\ second.success
                /\ first.agv_id = second.agv_id)

\* the integers nearest to num / den, den > 0 (both of them on a tie)
Nearest(num, den) ==
  {m \in 0..10 : 2 * (IF num >= m * den THEN num - m * den
                      ELSE m * den - num) <= den}

\* the restock needs just reported, as a set
ReportedNeeds ==
  IF IsAgentCall(request, "restock", "get_restock_needs")
  THEN {result.restock_needs[i] : i \in 1..Len(result.restock_needs)}
  ELSE {}

\* C10 as claimed: for every item with 0 <= quantity <= min_threshold and
\* min_threshold > 0 the restock priority is 10 when quantity = 0 and
\* otherwise clamp(round(((min_threshold - quantity) / min_threshold) * 10),
\* 1, 9).
C10_PriorityRounds ==
  \A need \in ReportedNeeds :
    LET t == need.min_threshold
        q == need.current_quantity
    IN (0 <= q /\ q <= t /\ t > 0)
       => IF q = 0 THEN need.priority = 10
          ELSE \E m \in Nearest((t - q) * 10, t) :
                 need.priority = Min(9, Max(1, m))

\* C10 amended: for every item with 0 <= quantity <= min_threshold and
\* min_threshold > 0 the restock priority is 10 when quantity = 0 and
\* otherwise clamp(m, 1, 9) for the integer m with
\* m <= ((min_threshold - quantity) / min_threshold) * 10 < m + 1, the
\* scaled ratio truncated, not rounded; threshold 10 with quantities 0, 3 and
\* 9 gives 10, 7 and 1.
C10_PriorityTruncates ==
  \A need \in ReportedNeeds :
    LET t == need.min_threshold
        q == need.current_quantity
    IN (0 <= q /\ q <= t /\ t > 0)
       => /\ need.current_quantity = items[need.product_id].quantity
          /\ need.min_threshold = items[need.product_id].min_threshold
          /\ IF q = 0 THEN need.priority = 10
             ELSE \E m \in 0..10 :
                    /\ m * t <= (t - q) * 10
                    /\ (t - q) * 10 < (m + 1) * t
                    /\ need.priority = Min(9, Max(1, m))
          /\ (t = 10 /\ q = 3) => need.priority = 7
          /\ (t = 10 /\ q = 9) => need.priority = 1

\* an item at quantity 1 of threshold 3 was reported with priority 6, where
\* rounding 6.67 gives 7
C10_Witness ==
  \E need \in ReportedNeeds :
    /\ need.min_threshold = 3
    /\ need.current_quantity = 1
    /\ need.priority = 6

\* position of product p in the Ledger's insertion order
LedgerPosition(p) == CHOOSE i \in 1..Len(item_order) : item_order[i] = p

\* C11: get_restock_needs returns exactly the items with quantity <=
\* min_threshold, sorted by priority score in descending order, and two items
\* of equal score keep their relative Ledger insertion order.
C11_NeedsSortedStable ==
  IsAgentCall(request, "restock", "get_restock_needs")
  => LET needs == result.restock_needs
     IN /\ result.success = TRUE
        /\ {needs[i].product_id : i \in 1..Len(needs)}
             = {p \in DOMAIN items :
                  items[p].quantity <= items[p].min_threshold}
        /\ \A i, j \in 1..Len(needs) :
             i < j =>
               /\ needs[i].product_id /= needs[j].product_id
               /\ needs[i].priority >= needs[j].priority
               /\ needs[i].priority = needs[j].priority
                    => LedgerPosition(needs[i].product_id)
                         < LedgerPosition(needs[j].product_id)

\* two items of equal score below 10 were reported in Ledger order
C11_Witness ==
  /\ IsAgentCall(request, "restock", "get_restock_needs")
  /\ Len(result.restock_needs) = 2
  /\ result.restock_needs[1].priority = result.restock_needs[2].priority
  /\ result.restock_needs[1].priority < 10
  /\ result.restock_needs[1].product_id = "P001"
  /\ result.restock_needs[1].min_threshold
       /= result.restock_needs[2].min_threshold

---------------------------------------------------------------------------
(* Dispatch of names nobody handles *)

\* the names each agent kind handles, and the field it reads the name from
HandledNames(agent) ==
  IF agent = "inventory"
  THEN {"check_inventory", "update_inventory", "add_inventory",
        "remove_inventory", "add_new_product"}
  ELSE IF agent = "agv"
  THEN {"move_agv", "charge_agv", "load_agv", "unload_agv",
        "get_available_agvs"}
  ELSE IF agent = "restock"
  THEN {"get_restock_needs", "plan_restock", "execute_restock"}
  ELSE IF agent = "warehouse"
  THEN {"move_agv", "pick_item", "restock_item", "process_order",
        "charge_agv"}
  ELSE {}

DispatchName(action) ==
  IF Get(action, "agent", "") = "warehouse"
  THEN Get(action, "type", "")
  ELSE Get(action, "action", "")

\* the action names no handler: unknown agent kind, or a name the agent of
\* that kind does not handle
IsStray(action) == DispatchName(action) \notin HandledNames(Get(action, "agent", ""))

C12_StrayCall ==
  (request'.op = "execute_action" /\ IsStray(request'.action))
  => /\ "raised" \notin DOMAIN result'
     /\ result'.success = FALSE
     /\ UNCHANGED <<items, item_order, agvs, stats, inventory_file,
                    agv_file>>

---------------------------------------------------------------------------
(* The journal and the results of execute_action *)

\* the request just served was routed: execute_action got past its check of
\* the 'type' field
Dispatched(req) ==
  req.op = "execute_action" /\ Truthy(req.action, "type")

C13_DispatchCall ==
  Dispatched(request')
  => /\ Len(action_history') = Len(action_history) + 2
     /\ SubSeq(action_history', 1, Len(action_history)) = action_history
     /\ action_history'[Len(action_history) + 1]
          = [type |-> "action", action |-> request'.action]
     /\ action_history'[Len(action_history) + 2]
          = [type |-> "result", action |-> request'.action,
             result |-> result']

\* C13: every action dispatched by execute_action has added exactly two
\* journal entries when control is back at the caller: an 'action' entry, then
\* a 'result' entry carrying the returned result.
C13_TwoJournalEntries == [][C13_DispatchCall]_vars

C14_Call ==
  request'.op = "execute_action"
  => /\ "raised" \notin DOMAIN result'
     /\ result'.success \in BOOLEAN

\* C14: execute_action returns a result carrying a success flag and never
\* raises, for every well-typed action in every reachable state.
C14_NeverRaises == [][C14_Call]_vars

\* C15: every result returned by execute_action, successful or failed, has a
\* boolean 'success' field and a 'message' field.
C15_ResultHasMessage ==
  request.op = "execute_action"
  => /\ "success" \in DOMAIN result
     /\ result.success \in BOOLEAN
     /\ "message" \in DOMAIN result

---------------------------------------------------------------------------
(* Unloading a product the Ledger has no item for *)

\* what AGV.unload_item hands back for a carried amount and a request
UnloadedAmount(carried, act) ==
  IF ~Has(act, "quantity") \/ act.quantity >= carried
  THEN carried
  ELSE act.quantity

C16_UnloadCall ==
  LET act == request'.action
      a == act.agv_id
      p == act.product_id
  IN (/\ request'.op = "execute_action"
      /\ act.agent = "agv" /\ act.action = "unload_agv"
      /\ a \in DOMAIN agvs
      /\ agvs[a].status = "idle"
      /\ p \in DOMAIN agvs[a].current_load
      /\ p \notin DOMAIN items
      /\ Has(act, "quantity") => act.quantity > 0)
     => LET n == UnloadedAmount(agvs[a].current_load[p], act)
        IN /\ "raised" \notin DOMAIN result'
           /\ result'.success = TRUE
           /\ Get(agvs'[a].current_load, p, 0)
                = agvs[a].current_load[p] - n
           /\ p \in DOMAIN items'
           /\ items'[p] = NewItem(n, agvs[a].location, 5, 100)

\* C16: the planner's unload_agv for a product the agent carries and the
\* Ledger has no item for unloads the quantity, creates a Ledger item with that
\* quantity at the agent's location with min_threshold 5 and max_capacity 100,
\* and returns success.
C16_UnloadCreatesItem == [][C16_UnloadCall]_vars

---------------------------------------------------------------------------
(* Snapshot writes that fail *)

\* what the request just served would have returned and left in memory had
\* every snapshot write succeeded
WithWorkingDisk ==
  Coordinator_execute_action([w |-> World, history |-> action_history],
                             request'.action)

C17_FailedWriteCall(ok) ==
  (request'.op = "execute_action" /\ request'.write_fails)
  => /\ "raised" \notin DOMAIN result'
     /\ result' = ok.result
     /\ items' = ok.w.items
     /\ item_order' = ok.w.item_order
     /\ agvs' = ok.w.agvs
     /\ stats' = ok.w.stats

\* C17: when a snapshot write fails during an operation, the operation
\* returns its normal result and leaves the in-memory Ledger and Fleet state
\* it would have left had the write succeeded.
C17_WriteFailureOnlyLogged == [][C17_FailedWriteCall(WithWorkingDisk)]_vars

---------------------------------------------------------------------------
(* Actions taken from the assistant's answer *)

C18_AskCall ==
  request'.op = "ask_agent"
  => UNCHANGED <<items, item_order, agvs, stats, inventory_file, agv_file,
                 action_history>>

C18_BackgroundCall ==
  request'.op = "background"
  => LET actions == request'.actions
         k == result'.dispatched
         run == RunPrefix([w |-> World, history |-> action_history],
                          actions, k)
     IN /\ ~result'.raised => k = Len(actions)
        /\ action_history' = run.history
        /\ items' = run.w.items /\ item_order' = run.w.item_order
        /\ agvs' = run.w.agvs /\ stats' = run.w.stats
        /\ inventory_file' = run.w.inventory_file
        /\ agv_file' = run.w.agv_file

\* C18: the actions taken from the assistant's answer change the warehouse
\* only by going through execute_action one after the other: answering
\* changes nothing, and the background task leaves the state and the journal
\* that submitting the same actions to execute_action one by one leaves.
C18_ExtractedGoThroughCoordinator ==
  [][C18_AskCall /\ C18_BackgroundCall]_vars

\* a background task ran three actions: the second one failed, was journaled,
\* and the third one still went through execute_action and took effect
C18_Witness ==
  /\ request.op = "background"
  /\ Len(request.actions) = 3
  /\ result.dispatched = 3
  /\ Len(action_history) >= 6
  /\ LET n == Len(action_history)
     IN /\ action_history[n - 2].type = "result"
        /\ action_history[n - 2].result.success = FALSE
        /\ action_history[n - 1]
             = [type |-> "action", action |-> request.actions[3]]
        /\ action_history[n].type = "result"
        /\ action_history[n].result.success = TRUE
        /\ request.actions[3].action = "add_inventory"

---------------------------------------------------------------------------
(* Bounds kept by the requests the Coordinator serves *)

\* C19: in every state reached through Coordinator-dispatched actions, every
\* Ledger item has 0 <= quantity <= max_capacity.
C19_ItemsWithinBounds ==
  \A p \in DOMAIN items : WithinCapacity(items[p])

\* C20: in every state reached through Coordinator-dispatched actions, every
\* agent's total load is at most its max_capacity and no carried quantity is
\* negative.
C20_AgentsWithinCapacity ==
  \A a \in DOMAIN agvs :
    /\ LoadTotal(agvs[a].current_load) <= agvs[a].max_capacity
    /\ \A p \in DOMAIN agvs[a].current_load : agvs[a].current_load[p] >= 0

---------------------------------------------------------------------------
(* Battery and status of the agents under Fleet Registry calls *)

\* C21: after any sequence of move, load, unload and charge calls, with any
\* charge amount, every agent's battery is within 0..100.
C21_BatteryWithinRange ==
  \A a \in DOMAIN agvs :
    0 <= agvs[a].battery_level /\ agvs[a].battery_level <= 100

\* C22: between Fleet Registry calls no agent has the status moving, loading,
\* unloading or charging: every agent is idle or in maintenance.
C22_NoTransientStatus ==
  \A a \in DOMAIN agvs : agvs[a].status \in {"idle", "maintenance"}

\* the second call served was a charge that succeeded, and the caller finds
\* the charged agent idle
C22_Witness ==
  /\ request.op = "charge_agv"
  /\ result.ret = TRUE
  /\ agvs[request.agv_id].status = "idle"
  /\ agvs[request.agv_id].battery_level < 100
  /\ ops = MaxOps

\* C23: no step removes an order from the Order Ledger, whatever its status,
\* and a served get_warehouse_state lists exactly the orders whose status
\* is neither completed nor cancelled, each as the Order Ledger holds it.
C23_ViewCall == ops' = ops + 1 /\ request'.op = "get_warehouse_state"

C23_OrdersKeptAndOpenListed ==
  [][/\ DOMAIN orders \subseteq DOMAIN orders'
     /\ C23_ViewCall =>
          /\ DOMAIN result'.orders =
               {o \in DOMAIN orders :
                  orders[o].status \notin {"completed", "cancelled"}}
          /\ \A o \in DOMAIN result'.orders : result'.orders[o] = orders[o]
    ]_vars

\* the second call served was a view that lists a pending order and leaves
\* out a cancelled one and a completed one, all three still in the ledger
C23_Witness ==
  /\ request.op = "get_warehouse_state"
  /\ ops = MaxOps
  /\ \E o \in DOMAIN orders :
       orders[o].status = "cancelled" /\ o \notin DOMAIN result.orders
  /\ \E o \in DOMAIN orders :
       orders[o].status = "pending" /\ o \in DOMAIN result.orders

\* C24: in every step the Coordinator serves, an item registered before the
\* step has its quantity changed only if the step made a successful
\* add_quantity, remove_quantity or update_quantity call for that item.
C24_LedgerCall(p) ==
  \E i \in DOMAIN trace' :
    /\ trace'[i].op \in {"add_quantity", "remove_quantity", "update_quantity"}
    /\ trace'[i].product_id = p
    /\ trace'[i].ok

C24_QuantityOnlyThroughLedgerOps ==
  [][\A p \in DOMAIN items :
       (p \in DOMAIN items' /\ items'[p].quantity /= items[p].quantity)
         => C24_LedgerCall(p)]_vars

\* C25: whenever a coroutine starts a Coordinator-dispatched action, no
\* other coroutine stands between the two phases of its own action or
\* between two actions of its list: the action before it has run to its end.
C25_StartsAction(i) ==
  /\ running[i].pc \in {"new", "between"}
  /\ request'.op = "run"
  /\ request'.task = running[i].id
  /\ request'.phase \in {"begin", "whole"}

C25_RunsToCompletion ==
  [][\A i \in DOMAIN running :
       C25_StartsAction(i) =>
         \A j \in DOMAIN running \ {i} :
           running[j].pc \notin {"mid", "between"}]_vars

\* a load stands between its phases, P001 debited and the agent's load as
\* it was, while the coroutine of a second request waits for the loop
C25_Witness ==
  \E i, j \in DOMAIN running :
    /\ running[i].pc = "mid" /\ running[j].pc = "new"
    /\ Head(running[i].todo).action = "load_agv"
    /\ items["P001"].quantity < running[i].c0.w.items["P001"].quantity
    /\ agvs[Head(running[i].todo).agv_id].current_load =
         running[i].c0.w.agvs[Head(running[i].todo).agv_id].current_load

\* the precondition execute_restock fails first, "" when it fails none
C26_FailedPrecondition ==
  LET action == request'.action
  IN IF \/ ~Truthy(action, "product_id") \/ ~Truthy(action, "agv_id")
        \/ Get(action, "restock_amount", 0) = 0
     THEN "Missing parameters"
     ELSE IF action.product_id \notin DOMAIN items THEN "Product not found"
     ELSE IF action.agv_id \notin DOMAIN agvs THEN "AGV not found"
     ELSE IF agvs[action.agv_id].status /= "idle" THEN "AGV is not idle"
     ELSE ""

C26_RestockCall ==
  (IsAgentCall(request', "restock", "execute_restock")
   /\ C26_FailedPrecondition /= "")
  => /\ result' = Fail(C26_FailedPrecondition)
     /\ trace' = << >>
     /\ UNCHANGED <<items, item_order, agvs, inventory_file, agv_file>>

\* C26: execute_restock with a missing parameter, an unknown item, an
\* unknown agent or an agent that is not idle returns the failure of the
\* first of these that applies, in that order, makes no manager call and
\* leaves the Ledger and the Fleet Registry as they were.
C26_PreconditionsInOrder == [][C26_RestockCall]_vars

\* an execute_restock for an unknown product on an unknown agent was served
\* and reported the product
C26_Witness ==
  /\ request.op = "agent_execute_action"
  /\ request.action.type = "execute_restock"
  /\ Truthy(request.action, "product_id") /\ Truthy(request.action, "agv_id")
  /\ request.action.product_id \notin DOMAIN items
  /\ request.action.agv_id \notin DOMAIN agvs
  /\ result = Fail("Product not found")

\* an execute_restock that passes its preconditions and asks for more than
\* the agent can still carry
C27_LoadStepFails ==
  /\ IsAgentCall(request', "restock", "execute_restock")
  /\ C26_FailedPrecondition = ""
  /\ LoadTotal(agvs[request'.action.agv_id].current_load)
       + request'.action.restock_amount
       > agvs[request'.action.agv_id].max_capacity

C27_RestockCall ==
  C27_LoadStepFails
  => LET a == request'.action.agv_id
     IN /\ result' = Fail("Failed to load onto AGV")
        /\ agvs' = [agvs EXCEPT
                      ![a].location = "receiving",
                      ![a].battery_level = Max(0, @ - 5)]
        /\ items' = items
        /\ Len(trace') = 2
        /\ trace'[1].op = "move_agv" /\ trace'[1].ok
        /\ trace'[2].op = "load_agv" /\ ~trace'[2].ok

\* C27: when execute_restock's load step fails because load total + amount
\* exceeds the agent's max_capacity, it returns failure; the agent is at
\* 'receiving' with battery lowered by the move cost of 5 (not below 0) and
\* its load as before, the Ledger is unchanged, and the move and the failed
\* load are the only manager calls made.
C27_NoCompensationForMove == [][C27_RestockCall]_vars

\* such a restock was served: the agent started elsewhere and now stands at
\* 'receiving' without the requested units
C27_Witness ==
  /\ request.op = "agent_execute_action"
  /\ request.action.type = "execute_restock"
  /\ result = Fail("Failed to load onto AGV")
  /\ Len(trace) = 2
  /\ trace[2].op = "load_agv" /\ ~trace[2].ok
  /\ agvs[request.action.agv_id].location = "receiving"
  /\ agvs[request.action.agv_id].battery_level = 95
  /\ agvs[request.action.agv_id].status = "idle"
  /\ LoadTotal(agvs[request.action.agv_id].current_load)
       + request.action.restock_amount
       > agvs[request.action.agv_id].max_capacity

C28_LoadCall ==
  (IsAgentCall(request', "agv", "load_agv")
   /\ ~Get(result', "success", FALSE))
  => /\ items' = items
     /\ agvs' = agvs

\* C28: every AGV-planner load_agv call that returns failure leaves the
\* Ledger items and every agent (location, battery, status, load) equal to
\* their values before the call.
C28_FailedLoadLeavesState == [][C28_LoadCall]_vars

\* what a served plan_restock came to
C29_Outcome(res) ==
  IF Get(res, "restock_needed", FALSE) THEN "plan emitted"
  ELSE IF Get(res, "success", FALSE) THEN "restock not needed"
  ELSE res.message

C29_PlanCall ==
  (IsAgentCall(request', "restock", "plan_restock")
   /\ Truthy(request'.action, "product_id"))
  => /\ C29_Outcome(result') \in
          {"Product not found", "restock not needed",
           "No available AGVs for restocking", "plan emitted"}
     /\ trace' = << >>
     /\ UNCHANGED <<items, item_order, agvs, orders, stats, inventory_file,
                    agv_file, order_file>>
     /\ C29_Outcome(result') = "plan emitted"
          => AGV_is_available(agvs'[result'.agv_id])

\* C29: a plan_restock call, whichever of its four outcomes it has, makes no
\* manager call and leaves Ledger, Fleet Registry, Order Ledger, statistics
\* and snapshots unchanged; after a plan is emitted the selected agent is
\* still available.
C29_PlanningChangesNothing == [][C29_PlanCall]_vars

\* a plan was emitted while an order is in the Order Ledger, and the agent
\* it names is still available
C29_Witness ==
  /\ request.op = "agent_execute_action"
  /\ request.action.type = "plan_restock"
  /\ C29_Outcome(result) = "plan emitted"
  /\ AGV_is_available(agvs[result.agv_id])
  /\ DOMAIN orders /= {}

\* the agents, in registry order, that are idle, above 20 battery and empty
C30_Eligible ==
  SelectSeq(AgvOrder,
            LAMBDA a : /\ agvs[a].status = "idle"
                       /\ agvs[a].battery_level > 20
                       /\ agvs[a].current_load = << >>)

C30_PlanCall ==
  (/\ IsAgentCall(request', "restock", "plan_restock")
   /\ Get(request'.action, "product_id", "") \in DOMAIN items
   /\ InventoryItem_needs_restock(items[request'.action.product_id]))
  => IF C30_Eligible = << >>
     THEN result' = Fail("No available AGVs for restocking")
     ELSE /\ result'.success /\ result'.restock_needed
          /\ result'.agv_id = C30_Eligible[1]
          /\ \A i \in DOMAIN result'.steps :
               result'.steps[i].agv_id = C30_Eligible[1]

\* C30: for an item that needs restock, plan_restock binds the plan and each
\* of its steps to the first agent in registry order that is idle, has
\* battery above 20 and carries nothing, and it fails with the no-agent
\* result exactly when there is no such agent.
C30_FirstEligibleAgent == [][C30_PlanCall]_vars

\* a plan was bound to the second agent of the registry because the first,
\* idle and charged, carries a load
C30_Witness ==
  /\ request.op = "agent_execute_action"
  /\ request.action.type = "plan_restock"
  /\ Get(result, "restock_needed", FALSE)
  /\ result.agv_id = AgvOrder[2]
  /\ agvs[AgvOrder[1]].status = "idle"
  /\ agvs[AgvOrder[1]].battery_level > 20
  /\ agvs[AgvOrder[1]].current_load /= << >>

C31_PlanCall ==
  (/\ IsAgentCall(request', "restock", "plan_restock")
   /\ Get(result', "restock_needed", FALSE))
  => LET p == request'.action.product_id
         a == result'.agv_id
         amount == items[p].max_capacity - items[p].quantity
     IN /\ result'.product_id = p
        /\ result'.restock_amount = amount
        /\ result'.steps =
             << [step |-> "move_agv_to_receiving", agv_id |-> a,
                 destination |-> "receiving"],
                [step |-> "load_inventory", agv_id |-> a, product_id |-> p,
                 quantity |-> amount],
                [step |-> "move_agv_to_storage", agv_id |-> a,
                 destination |-> items[p].location],
                [step |-> "unload_inventory", agv_id |-> a, product_id |-> p,
                 quantity |-> amount] >>

\* C31: a plan emitted by plan_restock has restock_amount = max_capacity -
\* quantity of the item and exactly four steps, in this order and all for
\* the selected agent: move to 'receiving', load the amount of the product,
\* move to the item's location, unload the amount of the product.
C31_PlanShape == [][C31_PlanCall]_vars

\* a plan was emitted for an item that holds something: the amount is less
\* than a full shelf
C31_Witness ==
  /\ request.op = "agent_execute_action"
  /\ request.action.type = "plan_restock"
  /\ Get(result, "restock_needed", FALSE)
  /\ result.current_quantity > 0
  /\ result.restock_amount = items[result.product_id].max_capacity
                             - result.current_quantity
  /\ Len(result.steps) = 4

\* a served AGVManager call named `name`
C32_RegistryCall(name) == ops' = ops + 1 /\ request'.op = name

C32_MoveCall ==
  C32_RegistryCall("move_agv")
  => LET a == request'.agv_id
     IN /\ result'.ret = (a \in DOMAIN agvs)
        /\ a \in DOMAIN agvs =>
             /\ agvs'[a].location = request'.location
             /\ agvs'[a].battery_level = Max(0, agvs[a].battery_level - 5)
             /\ agvs'[a].current_load = agvs[a].current_load
             /\ \A b \in DOMAIN agvs \ {a} : agvs'[b] = agvs[b]
        /\ a \notin DOMAIN agvs =>
             UNCHANGED <<items, agvs, inventory_file, agv_file>>

\* C32: AGVManager.move_agv returns True exactly when the agent exists,
\* whatever its status, battery or load; the agent is then at the
\* destination with battery max(0, battery - 5) and the load it had, and no
\* other agent changes; for an unknown agent nothing changes.
C32_MoveAlwaysSucceeds == [][C32_MoveCall]_vars

\* the second call served moved an agent that carries a load and had less
\* than 5 battery left: it returned True and the battery stands at 0
C32_Witness ==
  /\ request.op = "move_agv" /\ result.ret = TRUE /\ ops = MaxOps
  /\ agvs[request.agv_id].location = request.location
  /\ agvs[request.agv_id].current_load /= << >>
  /\ agvs[request.agv_id].battery_level = 0

\* what the agent of a served unload carried of the product before the call
C33_Carried ==
  IF request'.agv_id \in DOMAIN agvs
  THEN Get(agvs[request'.agv_id].current_load, request'.product_id, 0)
  ELSE 0

\* and what it carries after the call
C33_Left == Get(agvs'[request'.agv_id].current_load, request'.product_id, 0)

C33_UnloadCall ==
  C32_RegistryCall("unload_agv")
  => LET a == request'.agv_id
         p == request'.product_id
         q == request'.quantity
         c == C33_Carried
         idle == a \in DOMAIN agvs /\ agvs[a].status = "idle"
     IN /\ (idle /\ c > 0 /\ q = None)
             => result'.unloaded = c /\ p \notin DOMAIN agvs'[a].current_load
        /\ (idle /\ c > 0 /\ q /= None /\ 0 < q[1] /\ q[1] < c)
             => result'.unloaded = q[1] /\ C33_Left = c - q[1]
        /\ (idle /\ c > 0 /\ q /= None /\ q[1] >= c)
             => result'.unloaded = c /\ p \notin DOMAIN agvs'[a].current_load
        /\ (idle /\ c > 0)
             => /\ result'.unloaded <= c
                /\ p \in DOMAIN agvs'[a].current_load => C33_Left /= 0
        /\ (~idle \/ p \notin DOMAIN agvs[a].current_load)
             => result'.unloaded = 0

\* C33: for an idle agent carrying c > 0 of a product, unload without a
\* quantity returns c and removes the line, unload of 0 < qty < c returns
\* qty and leaves c - qty, unload of qty >= c returns c and removes the
\* line; the returned quantity never exceeds c and no line is left at zero.
\* Unload on an agent that is not idle (or unknown) or of a product the agent
\* does not carry returns 0.
C33_UnloadQuantities == [][C33_UnloadCall]_vars

\* a partial unload was served: one unit handed out, one unit left
C33_Witness ==
  /\ request.op = "unload_agv"
  /\ request.quantity = Some(1)
  /\ result.unloaded = 1
  /\ Get(agvs[request.agv_id].current_load, request.product_id, 0) = AgvCap - 1

C34_UnloadCall ==
  (C32_RegistryCall("unload_agv") /\ request'.agv_id \in DOMAIN agvs)
  => LET a == request'.agv_id
     IN /\ result'.unloaded > 0
             => agvs'[a].battery_level = Max(0, agvs[a].battery_level - 2)
        /\ result'.unloaded = 0 => agvs'[a] = agvs[a]

\* C34: an unload that returns a quantity above 0 lowers the agent's battery
\* by 2 (not below 0), and every unload that returns 0, whatever quantity
\* was asked for, leaves the agent's battery, load, location and status as
\* they were.
C34_BatteryOnlyOnUnload == [][C34_UnloadCall]_vars

\* s is a prefix of t
C35_IsPrefix(s, t) == Len(s) <= Len(t) /\ SubSeq(t, 1, Len(s)) = s

C36_UpdateCall ==
  C32_RegistryCall("update_order_status")
  => LET o == request'.order_id
     IN /\ result'.ret = (o \in DOMAIN orders)
        /\ o \in DOMAIN orders
             => orders' = [orders EXCEPT ![o].status = request'.status]
        /\ o \notin DOMAIN orders
             => UNCHANGED <<orders, order_file>>

\* the same through the warehouse's process_order action
C36_ProcessCall ==
  (/\ ops' = ops + 1 /\ request'.op = "execute_action"
   /\ request'.action.type = "process_order"
   /\ Truthy(request'.action, "order_id")
   /\ Get(request'.action, "status", "") \in OrderStatuses)
  => LET o == request'.action.order_id
     IN /\ result'.success = (o \in DOMAIN orders)
        /\ o \in DOMAIN orders
             => orders' = [orders EXCEPT ![o].status = request'.action.status]
        /\ o \notin DOMAIN orders
             => UNCHANGED <<orders, order_file>>

\* C36: update_order_status(order_id, s), called on the Order Ledger or
\* through the process_order action, returns True and sets the status to s
\* for every existing order and every status s, whatever the order's status
\* was; it returns False and changes nothing exactly when the order does not
\* exist.
C36_AnyTransition == [][C36_UpdateCall /\ C36_ProcessCall]_vars

\* an order counted as processed (completed through process_order) was then
\* moved back to 'processing'
C36_Witness ==
  /\ request.op = "update_order_status" /\ result.ret = TRUE
  /\ request.status = "processing"
  /\ orders[request.order_id].status = "processing"
  /\ stats.orders_processed = 1

\* the call before was a plan_restock that emitted a plan, and this call is
\* an execute_restock with the plan's product, agent and amount
C37_ExecutesThePlan ==
  /\ request.op = "execute_action"
  /\ Get(request.action, "type", "") = "plan_restock"
  /\ Get(result, "restock_needed", FALSE)
  /\ ops' = ops + 1
  /\ request'.op = "execute_action"
  /\ Get(request'.action, "type", "") = "execute_restock"
  /\ Get(request'.action, "agent", "") = "restock"
  /\ {"product_id", "agv_id", "restock_amount"} \subseteq DOMAIN request'.action
  /\ request'.action.product_id = result.product_id
  /\ request'.action.agv_id = result.agv_id
  /\ request'.action.restock_amount = result.restock_amount

C37_PlanThenExecute ==
  C37_ExecutesThePlan
  => /\ Get(result', "success", FALSE)
     /\ items'[result.product_id].quantity
          = items[result.product_id].max_capacity

\* C37: when plan_restock emits a plan and the next call is execute_restock
\* with the plan's product_id, agv_id and restock_amount, the execution
\* succeeds and the item's Ledger quantity becomes its max_capacity.
C37_PlanIsExecutable == [][C37_PlanThenExecute]_vars

\* units of p in the Ledger plus units of p carried by all agents
C38_Goods(its, fleet, p) ==
  its[p].quantity
    + SumOver([a \in DOMAIN fleet |-> Get(fleet[a].current_load, p, 0)],
              DOMAIN fleet)

C38_TransferCall ==
  (\/ IsAgentCall(request', "agv", "load_agv")
   \/ IsAgentCall(request', "agv", "unload_agv")
   \/ IsAgentCall(request', "warehouse", "pick_item")
   \/ IsAgentCall(request', "warehouse", "restock_item"))
  => \A p \in DOMAIN items :
       /\ p \in DOMAIN items'
       /\ C38_Goods(items', agvs', p) = C38_Goods(items, agvs, p)

\* C38: for every product registered in the Ledger, its Ledger quantity plus
\* the quantities of it carried by all agents is unchanged by every
\* AGV-planner load_agv and unload_agv action and every warehouse pick_item
\* and restock_item action, whether the action succeeds or fails.
C38_GoodsConserved == [][C38_TransferCall]_vars

\* the agents get_available_agvs lists for the fleet
C39_Eligible(fleet) ==
  LET ids == get_available_agvs([agvs |-> fleet])
  IN {ids[i] : i \in 1..Len(ids)}

C39_CoordinatorCall ==
  (/\ ops' = ops + 1
   /\ request'.op \in {"execute_action", "execute_plan"})
  => \A a \in DOMAIN agvs :
       agvs[a].status = "maintenance" => a \notin C39_Eligible(agvs')

\* C39: an agent whose status is maintenance never becomes eligible for new
\* work (never appears in get_available_agvs) through an action dispatched by
\* the Coordinator; only an explicit update_agv_status call returns it to
\* idle.
C39_MaintenanceStaysOut == [][C39_CoordinatorCall]_vars

\* the Coordinator was handed an action whose type is missing or empty
C40_Untyped(req) ==
  /\ req.op = "execute_action"
  /\ ~Truthy(req.action, "type")

C40_UntypedCall ==
  (ops' = ops + 1 /\ C40_Untyped(request'))
  => /\ result' = Fail("No action type specified")
     /\ trace' = << >>
     /\ action_history' = action_history
     /\ UNCHANGED <<items, item_order, agvs, stats, inventory_file,
                    agv_file, orders, order_file>>

\* C40: Coordinator.execute_action on an action with no 'type' returns
\* success=false before any routing, for every agent kind, the agents that
\* dispatch on 'action' included: no manager is called, nothing is appended
\* to the Action Journal and no Ledger, Fleet or Order state changes.
C40_UntypedIsRefused == [][C40_UntypedCall]_vars

\* an untyped request naming an agent that dispatches on 'action' was
\* refused as the last call, the journal holding entries of earlier calls
C40_Witness ==
  /\ C40_Untyped(request)
  /\ Get(request.action, "agent", "") = "restock"
  /\ Get(request.action, "action", "") = "execute_restock"
  /\ result = Fail("No action type specified")
  /\ action_history /= << >>
  /\ ops = MaxOps

====
